---- MODULE Spec2Model ----
(***************************************************************************)
(* Model of the step-execution engine of structured-tutorials:             *)
(* LocalTutorialRunner (runners/local.py), RunnerBase (runners/base.py),   *)
(* the cleanup guard (utils.py) and the CLI entry point (cli.py).          *)
(***************************************************************************)
EXTENDS Integers, Sequences, FiniteSets, TLC

VARIABLES
    environ,        \* os.environ: the environment of the process
    environment,    \* runner.environment: the environment commands are run with
    tutorial,       \* runner.tutorial: [parts, temporary_directory, git_export]
    alternatives,   \* runner.alternatives: tuple of chosen alternative keys
    interactive,    \* runner.interactive
    show_command_output,    \* runner.show_command_output
    context_arg,    \* the context argument of the runner's constructor
    next_part,    \* TutorialWrapper.next_part
    context,        \* runner.context: dict key -> value
    cleanup,        \* runner.cleanup: list of cleanup commands
    cwd,            \* the process working directory
    saved_cwd,      \* chdir(): the directory saved on entry (local variable cwd)
    scratch,        \* the TemporaryDirectory of run(): "none", "exists" or "destroyed"
    fs,             \* the file system: dict path -> contents
    pc,             \* position of the single thread of control
    part_no,        \* run_parts: number of parts taken from tutorial.parts
    part,           \* run_commands / write_file: the part being executed
    cmd_no,         \* run_commands: number of commands taken from part.commands
    command_config, \* run_commands: the command whose tests are running
    test_no,        \* run_commands: number of tests taken from command_config.test
    test,           \* run_test: the test being run
    proc,           \* run_test: the finished process of the owning command
    tries,          \* run_test: the local variable tries
    asked,          \* run_prompt: number of answers read for the current prompt
    drain_no,       \* cleanup(): number of entries of runner.cleanup taken
    error,          \* the exception in flight ("none" when there is none)
    result,         \* what run() / main() gave its caller ("none" while running)
    log             \* history: every externally visible effect, in order

vars == <<environ, environment, tutorial, alternatives, interactive, show_command_output, context_arg, next_part, context, cleanup, cwd, saved_cwd, scratch, fs,
          pc, part_no,
          part, cmd_no, command_config, test_no, test, proc, tries, asked,
          drain_no, error, result, log>>

----
\* Bounds of the model

MaxRetry == 3
MaxDelay == 2
MaxBackoff == 2
MaxAsk == 2

----
\* Values

NoKey == "-"
None == "None"
Keys == {"k1", "k2"}
Words == {"foo", "bar", "baz", "bla", "wrong"}

EmptyDict == [k \in {} |-> None]

\* An environment variable's value: a list of directories (a PATH), or None
EnvValue(dirs) == [unset |-> FALSE, dirs |-> dirs]
EnvNone == [unset |-> TRUE, dirs |-> <<>>]

\* os.environ of the process that runs the tutorial, where no test draws it
DefaultEnviron == "PATH" :> EnvValue(<<"/bin">>)

\* Mutant: existing entries are kept (setdefault instead of update)
DictSetDefault(d, upd) == d @@ upd

\* dict.update(): the entries of upd win over those of d
DictUpdate(d, upd) == upd @@ d

\* A template is a literal text with at most one variable reference {{ var }}.
Tpl(lit, var) == [lit |-> lit, var |-> var]

\* Environment.from_string(value).render(context): the literal text with the
\* variable substituted; an undefined variable renders as the empty string.
render(value, ctx) ==
    [lit |-> value.lit,
     val |-> IF value.var = NoKey THEN ""
             ELSE IF value.var \in DOMAIN ctx THEN ctx[value.var] ELSE ""]

\* render_command: string commands are rendered whole, tuple commands token by
\* token; the command's one template is rendered either way.
render_command(command, ctx) == render(command, ctx)

\* The text of a variable reference that was not substituted
Reference(var) == IF var = "k1" THEN "{{ k1 }}" ELSE "{{ k2 }}"

\* f"{command}": the command as configured, its template not rendered; a tuple
\* command is formatted as Python's repr of the tuple
format(command, argv) ==
    [lit |-> command.lit,
     val |-> IF command.var = NoKey THEN "" ELSE Reference(command.var),
     repr |-> argv]

\* The text of a rendered command as the command logger shows it
Shown(rendered) == [lit |-> rendered.lit, val |-> rendered.val, repr |-> FALSE]

----
\* Regular expressions over captured output.  Output is a sequence of words; a
\* pattern is a sequence of items, each a literal word or a named group
\* (?P<name>\w+) that matches any one word.

Lit(w) == [lit |-> w]
Group(k) == [group |-> k]
IsGroup(item) == "group" \in DOMAIN item

\* The line break of an output of several lines; no \w+ matches it
NL == "\n"

MatchesAt(pattern, value, i) ==
    /\ i + Len(pattern) - 1 <= Len(value)
    /\ \A j \in 1..Len(pattern) :
          IF IsGroup(pattern[j]) THEN value[i + j - 1] # NL
          ELSE pattern[j].lit = value[i + j - 1]

MatchOffsets(pattern, value) == {i \in 1..(Len(value) + 1) : MatchesAt(pattern, value, i)}

Min(S) == CHOOSE x \in S : \A y \in S : x <= y

\* match.groupdict() of the leftmost match
groupdict(pattern, value, i) ==
    LET groups == {j \in 1..Len(pattern) : IsGroup(pattern[j])}
        names == {pattern[j].group : j \in groups}
    IN [k \in names |-> value[i + (CHOOSE j \in groups : pattern[j].group = k) - 1]]

\* regex.search(value): no match (None), or the leftmost match
regex_search(pattern, value) ==
    IF MatchOffsets(pattern, value) = {}
    THEN [matched |-> FALSE, groupdict |-> EmptyDict]
    ELSE [matched |-> TRUE,
          groupdict |-> groupdict(pattern, value, Min(MatchOffsets(pattern, value)))]

----
\* Tests (models/tests.py)

StatusCodes == {0, 1}

TestCommandModel(command, argv, status_code, delay, retry, backoff_factor) ==
    [kind |-> "command", command |-> command, argv |-> argv, status_code |-> status_code,
     show_output |-> TRUE, delay |-> delay, retry |-> retry,
     backoff_factor |-> backoff_factor]

TestPortModel(delay, retry, backoff_factor) ==
    [kind |-> "port", host |-> "localhost", port |-> "1234", delay |-> delay,
     retry |-> retry, backoff_factor |-> backoff_factor]

TestOutputModel(stream, regex) == [kind |-> "output", stream |-> stream, regex |-> regex]

\* r"foo (?P<k1>\w+) bla", r"(?P<k2>\w+) bla" and a pattern without groups
RegexMid == <<Lit("foo"), Group("k1"), Lit("bla")>>
RegexHead == <<Group("k2"), Lit("bla")>>
RegexFoo == <<Lit("foo")>>
Regexes == {RegexMid, RegexHead, RegexFoo}

Outputs == {<<"foo", "bar", "bla">>, <<"foo", "bla", "bla">>, <<"wrong", "output">>, <<>>}

\* subprocess.CompletedProcess of a command run with capture_output
CompletedProcess(returncode, stdout, stderr) ==
    [returncode |-> returncode, stdout |-> stdout, stderr |-> stderr]

\* What running a process can do: exit with a status code, or (tuple form,
\* shell=False) fail to launch, which raises out of subprocess.run.
LaunchOutcomes(argv) ==
    {[raised |-> FALSE, returncode |-> c] : c \in StatusCodes}
    \cup (IF argv THEN {[raised |-> TRUE, returncode |-> 0]} ELSE {})

\* RunnerBase.run_shell_command: the stdout and stderr given to subprocess.run
\* Mutant: the run scope is not consulted
streams_command_scope(show_output, capture_output_, show_command_output_) ==
    IF capture_output_ THEN "PIPE"
    ELSE IF show_output THEN "None"
    ELSE "DEVNULL"

streams(show_output, capture_output_, show_command_output_) ==
    LET shown == IF show_output THEN show_command_output_ ELSE FALSE
    IN IF capture_output_ THEN "PIPE"
       ELSE IF shown THEN "None"
       ELSE "DEVNULL"

HideOutput(model) == [model EXCEPT !.show_output = FALSE]

----
\* History events

SleepEvent(secs) == [kind |-> "sleep", secs |-> secs]
RunEvent(role, command, returncode, show_output, stdout) ==
    [kind |-> "run", role |-> role, command |-> command, returncode |-> returncode,
     show_output |-> show_output, stdout |-> stdout]
ConnectEvent(host, port, ok) == [kind |-> "connect", host |-> host, port |-> port, ok |-> ok]
OutputTestEvent(matched, groups) ==
    [kind |-> "output_test", matched |-> matched, groupdict |-> groups]
\* A command's run; raised holds the message of the RuntimeError raised for its
\* status code, if one was raised
CommandEvent(config, command, returncode, stdout, raised) ==
    [kind |-> "run", role |-> "command", config |-> config, command |-> command,
     returncode |-> returncode, stdout |-> stdout, raised |-> raised]
PartUpdateEvent(update_context) == [kind |-> "part_update", update_context |-> update_context]

Pow2(n) == 2 ^ n

\* What run() or main() gave its caller
Running == [kind |-> "running"]
Returned == [kind |-> "returned"]
Raised(e) == [kind |-> "raised", error |-> e]
Exited(status, e, where) == [kind |-> "exit", status |-> status, error |-> e, part_no |-> where]

----
\* LocalTutorialRunner.run_test (runners/local.py)

nonTestVars == <<environ, environment, tutorial, alternatives, interactive, show_command_output, context_arg, next_part, cleanup, cwd, saved_cwd, scratch, fs,
                 part_no, part, cmd_no,
                 command_config, test_no, test, proc, asked, drain_no, result>>

\* time.sleep(test.delay), when an initial delay is configured
initial_delay(t) == IF t.delay > 0 THEN <<SleepEvent(t.delay)>> ELSE <<>>

\* Mutant: the exponent is the number of tries, not the number of previous tries
backoff_wait_doubled(t, n) ==
    LET wait == t.backoff_factor * Pow2(n)
    IN IF wait > 0 /\ n <= t.retry THEN <<SleepEvent(wait)>> ELSE <<>>

\* Mutant: no sleep before the last try
backoff_wait_short(t, n) ==
    LET wait == t.backoff_factor * Pow2(n - 1)
    IN IF wait > 0 /\ n < t.retry THEN <<SleepEvent(wait)>> ELSE <<>>

\* wait = test.backoff_factor * (2 ** (tries - 1)), slept unless it is zero or
\* this was the last try
backoff_wait(t, n) ==
    LET wait == t.backoff_factor * Pow2(n - 1)
    IN IF wait > 0 /\ n <= t.retry THEN <<SleepEvent(wait)>> ELSE <<>>

\* Mutant: one try too many
may_try_once_more(t, n) == n <= t.retry + 1

\* The loop condition: while tries <= test.retry
may_try(t, n) == n <= t.retry

\* Entry of run_test: an output test is decided right away; any other test
\* waits its initial delay and enters the retry loop.
run_test_enter ==
    /\ pc = "run_test"
    /\ IF test.kind = "output"
       THEN LET value == IF test.stream = "stderr" THEN proc.stderr ELSE proc.stdout
                match == regex_search(test.regex, value)
            IN /\ context' = IF match.matched
                              THEN DictUpdate(context, match.groupdict) ELSE context
               /\ error' = IF match.matched THEN "none" ELSE "CommandOutputTestError"
               /\ log' = Append(log, OutputTestEvent(match.matched, match.groupdict))
               /\ pc' = "test_return"
               /\ UNCHANGED tries
       ELSE /\ log' = log \o initial_delay(test)
            /\ tries' = 0
            /\ pc' = "test_loop"
            /\ UNCHANGED <<context, error>>
    /\ UNCHANGED nonTestVars

\* One pass of the while loop (one probe and the sleep after it), or the raise
\* after the loop.
run_test_loop ==
    /\ pc = "test_loop"
    /\ IF may_try(test, tries)
       THEN /\ tries' = tries + 1
            /\ IF test.kind = "command"
               THEN \E outcome \in LaunchOutcomes(test.argv) :
                      LET ev == RunEvent("test", render_command(test.command, context),
                                         outcome.returncode, test.show_output,
                                         streams(test.show_output, FALSE, show_command_output))
                      IN IF outcome.raised
                         THEN /\ error' = "FileNotFoundError"
                              /\ pc' = "test_return"
                              /\ UNCHANGED log
                         ELSE IF test.status_code = outcome.returncode
                         THEN /\ error' = "none"
                              /\ pc' = "test_return"
                              /\ log' = Append(log, ev)
                         ELSE /\ log' = Append(log, ev) \o backoff_wait(test, tries')
                              /\ UNCHANGED <<pc, error>>
               ELSE \E ok \in BOOLEAN :
                      LET ev == ConnectEvent(test.host, test.port, ok)
                      IN IF ok
                         THEN /\ error' = "none"
                              /\ pc' = "test_return"
                              /\ log' = Append(log, ev)
                         ELSE /\ log' = Append(log, ev) \o backoff_wait(test, tries')
                              /\ UNCHANGED <<pc, error>>
       ELSE /\ error' = "CommandTestError"
            /\ pc' = "test_return"
            /\ UNCHANGED <<tries, log>>
    /\ UNCHANGED <<context>>
    /\ UNCHANGED nonTestVars

----
\* Specification of run_test alone: the test, the finished process and the
\* context are drawn from bounded sets.

TestInputs ==
    {TestCommandModel(Tpl("test -e", NoKey), argv, sc, d, r, b) :
        argv \in BOOLEAN, sc \in StatusCodes, d \in 0..MaxDelay, r \in 0..MaxRetry,
        b \in 0..MaxBackoff}
    \cup {TestPortModel(d, r, b) : d \in 0..MaxDelay, r \in 0..MaxRetry, b \in 0..MaxBackoff}
    \cup {TestOutputModel(s, re) : s \in {"stdout", "stderr"}, re \in Regexes}

TestContexts == {EmptyDict, ("k1" :> "foo") @@ ("k2" :> "baz")}

NoPart == [type |-> "none"]
NoCommand == [command |-> Tpl("", NoKey)]
NoTest == [kind |-> "none"]
NoProc == CompletedProcess(0, <<>>, <<>>)
NoTutorial == [parts |-> <<>>, temporary_directory |-> FALSE, git_export |-> FALSE,
               context |-> EmptyDict]

InitTest ==
    /\ environ = DefaultEnviron
    /\ environment = DefaultEnviron
    /\ tutorial = NoTutorial
    /\ alternatives = <<>>
    /\ interactive = FALSE
    /\ show_command_output \in BOOLEAN
    /\ context_arg = EmptyDict
    /\ next_part = 0
    /\ context \in TestContexts
    /\ cleanup = <<>>
    /\ cwd = "/orig"
    /\ saved_cwd = None
    /\ scratch = "none"
    /\ fs = EmptyDict
    /\ pc = "run_test"
    /\ part_no = 0
    /\ part = NoPart
    /\ cmd_no = 0
    /\ command_config = NoCommand
    /\ test_no = 0
    /\ test \in TestInputs
    /\ proc \in {CompletedProcess(0, out, err) : out \in Outputs, err \in {<<>>, <<"foo", "bla", "bla">>}}
    /\ tries = 0
    /\ asked = 0
    /\ drain_no = 0
    /\ error = "none"
    /\ result = Running
    /\ log = <<>>

NextTest == run_test_enter \/ run_test_loop

SpecTest == InitTest /\ [][NextTest]_vars

\* run_test is a sequence of blocking calls on the one thread of the runner:
\* every call returns, so the next step is always taken.
SpecTestFair == SpecTest /\ WF_vars(NextTest)

----
\* Properties of run_test (checked under SpecTest, where the history holds the
\* events of one call of run_test)

IsSleep(e) == e.kind = "sleep"
IsProbe(e) == e.kind = "connect" \/ (e.kind = "run" /\ e.role = "test")
ProbeFailed(e, t) == IF e.kind = "connect" THEN ~e.ok ELSE e.returncode # t.status_code

Probes == {i \in 1..Len(log) : IsProbe(log[i])}
AllProbesFailed == \A i \in Probes : ProbeFailed(log[i], test)

\* The seconds slept, in order
SleepSecs ==
    LET sleeps == SelectSeq(log, IsSleep)
    IN [i \in 1..Len(sleeps) |-> sleeps[i].secs]

\* The sleeps after the first probe
BackoffSleeps == {i \in 1..Len(log) : IsSleep(log[i]) /\ \E p \in Probes : p < i}

RetryTest == test.kind \in {"command", "port"}

\* C5: for a command or port test with delay d > 0, retry r and backoff factor
\* b > 0 whose every probe fails, the sleeps are exactly d, then b*2^(k-1) for
\* k = 1..r, with no sleep after the last failed probe, and CommandTestError is
\* raised.
C5_BackoffSleepSequence ==
    (/\ pc = "test_return"
     /\ RetryTest
     /\ test.delay > 0
     /\ test.backoff_factor > 0
     /\ Cardinality(Probes) = test.retry + 1
     /\ AllProbesFailed)
    => /\ SleepSecs = <<test.delay>> \o [k \in 1..test.retry |-> test.backoff_factor * 2 ^ (k - 1)]
       /\ IsProbe(log[Len(log)])
       /\ error = "CommandTestError"

\* C5 witness: delay 2, retry 3, backoff factor 1, every probe failed
C5_Witness ==
    /\ pc = "test_return"
    /\ test.kind = "port"
    /\ test.delay = 2 /\ test.retry = 3 /\ test.backoff_factor = 1
    /\ error = "CommandTestError"
    /\ SleepSecs = <<2, 1, 2, 4>>
    /\ Cardinality(Probes) = 4

\* C6: if a probe first succeeds on attempt k (1 <= k <= retry + 1), run_test
\* returns without error after exactly k probes and, for a backoff factor > 0,
\* exactly k - 1 backoff sleeps; nothing happens after the success.
C6_FirstSuccessReturns ==
    /\ (RetryTest /\ Len(log) > 0 /\ IsProbe(log[Len(log)]) /\ ~ProbeFailed(log[Len(log)], test))
       => (pc = "test_return" /\ error = "none")
    /\ (RetryTest /\ pc = "test_return" /\ error = "none")
       => /\ Cardinality(Probes) = tries
          /\ tries \in 1..(test.retry + 1)
          /\ IsProbe(log[Len(log)]) /\ ~ProbeFailed(log[Len(log)], test)
          /\ \A i \in Probes : i < Len(log) => ProbeFailed(log[i], test)
          /\ test.backoff_factor > 0 => Cardinality(BackoffSleeps) = tries - 1

\* C6 witness: with retry 3, one failed probe, one backoff sleep, then success
C6_Witness ==
    /\ pc = "test_return"
    /\ error = "none"
    /\ RetryTest
    /\ test.retry = 3 /\ test.backoff_factor = 1
    /\ tries = 2
    /\ Cardinality(BackoffSleeps) = 1

\* C7: run_test terminates for every command and port test, with at most
\* retry + 1 probes, and raises CommandTestError if and only if all retry + 1
\* probes failed.
C7_TerminatesWithinRetries ==
    /\ [](RetryTest =>
            /\ Cardinality(Probes) <= test.retry + 1
            /\ pc = "test_return" =>
                  (error = "CommandTestError"
                     <=> (Cardinality(Probes) = test.retry + 1 /\ AllProbesFailed)))
    /\ <>(pc = "test_return")

\* C7 witness: retry 2, three failed probes, CommandTestError
C7_Witness ==
    /\ pc = "test_return"
    /\ test.kind = "command"
    /\ test.retry = 2
    /\ Cardinality(Probes) = 3
    /\ AllProbesFailed
    /\ error = "CommandTestError"

\* The value an output test reads, and where its pattern matches
TestedStream == IF test.stream = "stderr" THEN proc.stderr ELSE proc.stdout
Offsets == {i \in 1..(Len(TestedStream) + 1) : MatchesAt(test.regex, TestedStream, i)}
GroupNames == {test.regex[j].group : j \in {h \in 1..Len(test.regex) : IsGroup(test.regex[h])}}
Captured(k) ==
    TestedStream[Min(Offsets) + (CHOOSE j \in 1..Len(test.regex) :
                                   IsGroup(test.regex[j]) /\ test.regex[j].group = k) - 1]

\* C8: an output test is one step on the already captured stream (no sleep, no
\* try, no run of a command); on a match the named groups are merged into the
\* context, on no match CommandOutputTestError is raised and the context is
\* unchanged.
C8_OutputTestOnce ==
    [][(pc = "run_test" /\ test.kind = "output") =>
        /\ pc' = "test_return"
        /\ tries' = tries
        /\ Len(log') = Len(log) + 1
        /\ SubSeq(log', 1, Len(log)) = log
        /\ log'[Len(log')].kind = "output_test"
        /\ IF Offsets # {}
           THEN /\ error' = "none"
                /\ DOMAIN context' = DOMAIN context \cup GroupNames
                /\ \A k \in DOMAIN context' :
                      context'[k] = IF k \in GroupNames THEN Captured(k) ELSE context[k]
           ELSE /\ error' = "CommandOutputTestError"
                /\ context' = context]_vars

\* C8 witness: the pattern foo (?P<k1>\w+) bla matched "foo bar bla" and k1,
\* which was "foo" before, is "bar"
C8_Witness ==
    /\ pc = "test_return"
    /\ test.kind = "output"
    /\ error = "none"
    /\ Len(log) = 1
    /\ DOMAIN context = {"k1", "k2"}
    /\ context["k1"] = "bar"

----
\* Commands and parts (models/parts.py, models.py)

CleanupCommandModel(command, argv) ==
    [command |-> command, argv |-> argv, show_output |-> TRUE]

\* command_config.run of a command
CommandRuntimeConfigurationModel(skip, status_code, update_context, cleanup_, test_, chdir) ==
    [skip |-> skip, status_code |-> status_code, show_output |-> TRUE,
     update_context |-> update_context, cleanup |-> cleanup_, test |-> test_, chdir |-> chdir]

CommandModel(command, argv, run_) == [command |-> command, argv |-> argv, run |-> run_]

PartRun(skip, update_context) == [skip |-> skip, update_context |-> update_context]

CommandsPartModel(commands, run_) == [type |-> "commands", commands |-> commands, run |-> run_]

FilePartModel(contents, source, destination, run_) ==
    [type |-> "file", contents |-> contents, source |-> source, destination |-> destination,
     template |-> TRUE, run |-> run_]

PromptModel(response, default) ==
    [type |-> "prompt", prompt |-> Tpl("example:", NoKey), response |-> response,
     default |-> default, error |-> Tpl("State was not confirmed.", NoKey)]

AlternativeModel(alternatives_, required, run_) ==
    [type |-> "alternatives", alternatives |-> alternatives_, required |-> required,
     run |-> run_]

clean_a == CleanupCommandModel(Tpl("clean_a", NoKey), FALSE)
clean_b == HideOutput(CleanupCommandModel(Tpl("clean_b", "k1"), TRUE))
clean_c == CleanupCommandModel(Tpl("clean_c", NoKey), FALSE)

NoRun == CommandRuntimeConfigurationModel(FALSE, 0, EmptyDict, <<>>, <<>>, None)

\* cmd1: registers clean_a and sets k1
cmd1 == CommandModel(Tpl("cmd1", NoKey), FALSE,
            CommandRuntimeConfigurationModel(FALSE, 0, "k1" :> "bar", <<clean_a>>, <<>>, None))
\* cmd2: tuple form, references k1, registers clean_b and clean_c
cmd2 == CommandModel(Tpl("cmd2", "k1"), TRUE,
            HideOutput(CommandRuntimeConfigurationModel(FALSE, 0, EmptyDict,
                                                        <<clean_b, clean_c>>, <<>>, None)))
\* cmd3: sets k1 and captures k1 from its output
cmd3 == CommandModel(Tpl("cmd3", "k1"), FALSE,
            CommandRuntimeConfigurationModel(FALSE, 0, "k1" :> "baz", <<>>,
                <<TestOutputModel("stdout", RegexMid)>>, None))
\* cmd4: expected to fail, followed by a port test and a command test
cmd4 == CommandModel(Tpl("cmd4", NoKey), FALSE,
            CommandRuntimeConfigurationModel(FALSE, 1, "k2" :> "foo", <<clean_c>>,
                <<TestPortModel(1, 1, 1), TestCommandModel(Tpl("test", "k2"), TRUE, 0, 0, 0, 0)>>,
                None))
\* cmd5: skipped
cmd5 == CommandModel(Tpl("cmd5", NoKey), FALSE,
            CommandRuntimeConfigurationModel(TRUE, 0, "k1" :> "wrong", <<clean_a>>, <<>>, None))
\* cmd6: changes the working directory, followed by a command test whose
\* output is hidden
cmd6 == CommandModel(Tpl("cmd6", "k2"), FALSE,
            CommandRuntimeConfigurationModel(FALSE, 0, EmptyDict, <<>>,
                <<HideOutput(TestCommandModel(Tpl("test", NoKey), FALSE, 0, 0, 0, 0))>>,
                "/other"))

PartA == CommandsPartModel(<<cmd1, cmd2>>, PartRun(FALSE, "k2" :> "bla"))
PartB == CommandsPartModel(<<cmd3, cmd2>>, PartRun(FALSE, EmptyDict))
PartC == CommandsPartModel(<<cmd5, cmd4, cmd6>>, PartRun(FALSE, EmptyDict))
PartSkipped == CommandsPartModel(<<cmd1>>, PartRun(TRUE, "k1" :> "wrong"))
FileA == FilePartModel("foo", None, Tpl("dest/a.txt", NoKey), PartRun(FALSE, EmptyDict))
FileSrc == FilePartModel(None, "a.txt", Tpl("", "k2"), PartRun(FALSE, EmptyDict))
FileDir == FilePartModel("bar", None, Tpl("", "k2"), PartRun(FALSE, EmptyDict))
PromptEnter == PromptModel("enter", TRUE)
PromptConfirm == PromptModel("confirm", FALSE)
PromptConfirmYes == PromptModel("confirm", TRUE)
AltRequired == AlternativeModel(("foo" :> PartA) @@ ("bar" :> FileA), TRUE,
                                PartRun(FALSE, "k1" :> "foo"))
AltOptional == AlternativeModel(("foo" :> PartB) @@ ("bar" :> PartSkipped), FALSE,
                                PartRun(FALSE, EmptyDict))

FileSkipped == FilePartModel("foo", None, Tpl("dest/a.txt", NoKey),
                             PartRun(TRUE, "k1" :> "wrong"))

Parts == {PartA, PartB, PartC, PartSkipped, FileA, FileSrc, FileDir, FileSkipped, PromptEnter,
          PromptConfirm, PromptConfirmYes, AltRequired, AltOptional}

PartLists == {<<p>> : p \in Parts} \cup {<<p, q>> : p \in Parts, q \in Parts}

TutorialModel(parts, temporary_directory, git_export, context_) ==
    [parts |-> parts, temporary_directory |-> temporary_directory,
     git_export |-> git_export, context |-> context_]

Tutorials ==
    {TutorialModel(ps, tmp, FALSE, "k2" :> "dest/") : ps \in PartLists, tmp \in BOOLEAN}
    \cup {TutorialModel(ps, FALSE, TRUE, "k2" :> "dest/") : ps \in PartLists}

AlternativeChoices == {<<>>, <<"foo">>, <<"bar">>, <<"foo", "bar">>}

----
\* History events of the runner

LoggedEvent(level, e) == [kind |-> "logged", level |-> level, error |-> e]
InputEvent(what) == [kind |-> "input", what |-> what]
PromptInputEvent(answer) == [kind |-> "input", what |-> "prompt", answer |-> answer]
WriteEvent(path, contents) == [kind |-> "write", path |-> path, contents |-> contents]
CleanupEvent(entry, command, stdout) ==
    [kind |-> "cleanup", entry |-> entry, command |-> command, stdout |-> stdout]

IsCommandRun(e) == e.kind = "run" /\ e.role = "command"
Range(seq) == {seq[i] : i \in 1..Len(seq)}
Indices(l, P(_)) == {i \in 1..Len(l) : P(l[i])}

----
\* RunnerBase.validate_alternatives (runners/base.py)

selected_alternatives(p, alts) == Range(alts) \cap DOMAIN p.alternatives

\* Mutant: the number of selected keys is checked for required parts only
rejected_parts_required_only(parts, alts) ==
    {i \in 1..Len(parts) :
        /\ parts[i].type = "alternatives"
        /\ parts[i].required
        /\ Cardinality(selected_alternatives(parts[i], alts)) # 1}

\* The parts for which validate_alternatives raises
rejected_parts(parts, alts) ==
    {i \in 1..Len(parts) :
        /\ parts[i].type = "alternatives"
        /\ LET selected == selected_alternatives(parts[i], alts)
           IN \/ parts[i].required /\ Cardinality(selected) = 0
              \/ Cardinality(selected) # 1}

\* Mutant: the part is numbered from 0 (enumerate without start=1)
validate_alternatives_from_zero(parts, alts) ==
    LET bad == rejected_parts(parts, alts)
    IN IF bad = {}
       THEN [raised |-> FALSE, part_no |-> 0, message |-> "", selected |-> {}]
       ELSE LET part_no_ == Min(bad)
                selected == selected_alternatives(parts[part_no_], alts)
            IN [raised |-> TRUE, part_no |-> part_no_ - 1,
                message |-> IF parts[part_no_].required /\ Cardinality(selected) = 0
                            THEN "No alternative selected."
                            ELSE "More then one alternative selected",
                selected |-> selected]

\* The outcome of validate_alternatives: no error, or the error raised for the
\* first rejected part, with the part number and the wording of its message.
validate_alternatives(parts, alts) ==
    LET bad == rejected_parts(parts, alts)
    IN IF bad = {}
       THEN [raised |-> FALSE, part_no |-> 0, message |-> "", selected |-> {}]
       ELSE LET part_no_ == Min(bad)
                selected == selected_alternatives(parts[part_no_], alts)
            IN [raised |-> TRUE, part_no |-> part_no_,
                message |-> IF parts[part_no_].required /\ Cardinality(selected) = 0
                            THEN "No alternative selected."
                            ELSE "More then one alternative selected",
                selected |-> selected]

\* Mutant: the error is reported but main does not exit
main_without_exit ==
    /\ pc = "main"
    /\ LET v == validate_alternatives(tutorial.parts, alternatives)
       IN IF v.raised
          THEN log' = Append(log, [kind |-> "error_output", message |-> v.message,
                                   part_no |-> v.part_no, selected |-> v.selected])
          ELSE UNCHANGED log
    /\ pc' = "run"
    /\ UNCHANGED <<environ, environment, tutorial, alternatives, interactive, show_command_output, context_arg, next_part, context, cleanup, cwd, saved_cwd,
                   scratch, fs, part_no, part, cmd_no, command_config, test_no, test, proc,
                   tries, asked, drain_no, error, result>>

\* cli.main: validate the chosen alternatives, exit with status 1 when they are
\* invalid, otherwise call runner.run()
main ==
    /\ pc = "main"
    /\ LET v == validate_alternatives(tutorial.parts, alternatives)
       IN IF v.raised
          THEN /\ result' = Exited(1, "InvalidAlternativesSelectedError", v.part_no)
               /\ log' = Append(log, [kind |-> "error_output", message |-> v.message,
                                      part_no |-> v.part_no, selected |-> v.selected])
               /\ pc' = "exit"
          ELSE /\ pc' = "run"
               /\ UNCHANGED <<result, log>>
    /\ UNCHANGED <<environ, environment, tutorial, alternatives, interactive, show_command_output, context_arg, next_part, context, cleanup, cwd, saved_cwd,
                   scratch, fs, part_no, part, cmd_no, command_config, test_no, test, proc,
                   tries, asked, drain_no, error>>

----
\* RunnerBase.run / LocalTutorialRunner.run: entry

TmpDir == "/tmp/tmpdir"
ExportDir == "/tmp/tmpdir/git-export-HEAD"

run ==
    /\ pc = "run"
    /\ IF tutorial.temporary_directory
       THEN /\ context' = DictUpdate(context, ("cwd" :> TmpDir) @@ ("temp_dir" :> TmpDir)
                                               @@ ("orig_cwd" :> cwd))
            /\ scratch' = "exists"
            /\ saved_cwd' = cwd
            /\ cwd' = TmpDir
            /\ pc' = "run_parts"
            /\ UNCHANGED error
       ELSE IF tutorial.git_export
       THEN \E exported \in BOOLEAN :
              /\ scratch' = "exists"
              /\ IF exported
                 THEN /\ context' = DictUpdate(context, ("cwd" :> ExportDir)
                                        @@ ("export_dir" :> ExportDir) @@ ("orig_cwd" :> cwd))
                      /\ saved_cwd' = cwd
                      /\ cwd' = ExportDir
                      /\ pc' = "run_parts"
                      /\ UNCHANGED error
                 ELSE /\ error' = "FileNotFoundError"
                      /\ pc' = "rmtree"
                      /\ UNCHANGED <<context, saved_cwd, cwd>>
       ELSE /\ pc' = "run_parts"
            /\ UNCHANGED <<context, scratch, saved_cwd, cwd, error>>
    /\ part_no' = 0
    /\ UNCHANGED <<environ, environment, tutorial, alternatives, interactive, show_command_output, context_arg, next_part, cleanup, fs, part, cmd_no,
                   command_config, test_no, test, proc, tries, asked, drain_no,
                   result, log>>

----
\* LocalTutorialRunner.run_parts and run_alternative (runners/local.py)

\* Mutant: without a chosen key an alternative of the part is run all the same
run_alternative_default(p, alts) ==
    LET selected == selected_alternatives(p, alts)
    IN IF Cardinality(selected) > 1
       THEN [pc |-> "except", part |-> p, error |-> "AssertionError"]
       ELSE LET selected_part ==
                    p.alternatives[CHOOSE k \in (IF selected # {} THEN selected
                                                 ELSE DOMAIN p.alternatives) : TRUE]
            IN [pc |-> IF selected_part.type = "commands" THEN "run_commands" ELSE "write_file",
                part |-> selected_part, error |-> "none"]

\* run_alternative: where control goes for an alternative part
run_alternative(p, alts) ==
    LET selected == selected_alternatives(p, alts)
    IN IF Cardinality(selected) > 1
       THEN [pc |-> "except", part |-> p, error |-> "AssertionError"]
       ELSE IF selected # {}
       THEN LET selected_part == p.alternatives[CHOOSE k \in selected : TRUE]
            IN [pc |-> IF selected_part.type = "commands" THEN "run_commands" ELSE "write_file",
                part |-> selected_part, error |-> "none"]
       ELSE [pc |-> "part_end", part |-> p, error |-> "none"]

\* Mutant: the skip flag of a part is not consulted
dispatch_skipped(p, alts, inter) ==
    IF p.type = "prompt"
    THEN [pc |-> IF inter THEN "run_prompt" ELSE "run_parts", part |-> p, error |-> "none"]
    ELSE IF p.type = "commands"
    THEN [pc |-> "run_commands", part |-> p, error |-> "none"]
    ELSE IF p.type = "file"
    THEN [pc |-> "write_file", part |-> p, error |-> "none"]
    ELSE run_alternative(p, alts)

\* Mutant: a prompt part is run whether or not the run is interactive
dispatch_prompt_always(p, alts, inter) ==
    IF p.type = "prompt"
    THEN [pc |-> "run_prompt", part |-> p, error |-> "none"]
    ELSE IF p.run.skip
    THEN [pc |-> "run_parts", part |-> p, error |-> "none"]
    ELSE IF p.type = "commands"
    THEN [pc |-> "run_commands", part |-> p, error |-> "none"]
    ELSE IF p.type = "file"
    THEN [pc |-> "write_file", part |-> p, error |-> "none"]
    ELSE run_alternative(p, alts)

\* The body of the for loop of run_parts up to the call that executes the part
dispatch(p, alts, inter) ==
    IF p.type = "prompt"
    THEN [pc |-> IF inter THEN "run_prompt" ELSE "run_parts", part |-> p, error |-> "none"]
    ELSE IF p.run.skip
    THEN [pc |-> "run_parts", part |-> p, error |-> "none"]
    ELSE IF p.type = "commands"
    THEN [pc |-> "run_commands", part |-> p, error |-> "none"]
    ELSE IF p.type = "file"
    THEN [pc |-> "write_file", part |-> p, error |-> "none"]
    ELSE run_alternative(p, alts)

\* One pass of the for loop of run_parts, or its normal end
run_parts ==
    /\ pc = "run_parts"
    /\ IF part_no < Len(tutorial.parts)
       THEN LET d == dispatch(tutorial.parts[part_no + 1], alternatives, interactive)
            IN /\ part_no' = part_no + 1
               /\ pc' = d.pc
               /\ part' = d.part
               /\ error' = d.error
               /\ cmd_no' = 0
               /\ asked' = 0
               /\ UNCHANGED drain_no
       ELSE /\ pc' = "drain"
            /\ drain_no' = 0
            /\ UNCHANGED <<part_no, part, error, cmd_no, asked>>
    /\ UNCHANGED <<environ, environment, tutorial, alternatives, interactive, show_command_output, context_arg, next_part, context, cleanup, cwd, saved_cwd,
                   scratch, fs, command_config, test_no, test, proc, tries, result, log>>

\* self.context.update(part.run.update_context) after the part has run
run_parts_update ==
    /\ pc = "part_end"
    /\ context' = DictUpdate(context, tutorial.parts[part_no].run.update_context)
    /\ log' = Append(log, PartUpdateEvent(tutorial.parts[part_no].run.update_context))
    /\ pc' = "run_parts"
    /\ UNCHANGED <<environ, environment, tutorial, alternatives, interactive, show_command_output, context_arg, next_part, cleanup, cwd, saved_cwd, scratch, fs,
                   part_no, part, cmd_no, command_config, test_no, test, proc, tries, asked,
                   drain_no, error, result>>

----
\* LocalTutorialRunner.run_commands (runners/local.py)

\* list(command_config.run.cleanup): the command's cleanup commands in their
\* listed order.  Each entry carries the identity of its registration: owner is
\* the ordinal of the executed command that registers it, idx its place in the
\* command's list.
cleanup_list(cc, owner) ==
    [i \in 1..Len(cc.run.cleanup) |->
        [command |-> cc.run.cleanup[i].command, argv |-> cc.run.cleanup[i].argv,
         show_output |-> cc.run.cleanup[i].show_output, owner |-> owner, idx |-> i]]

\* Mutant: the entries of the command's list are pushed one by one
register_cleanup_pushed(cc, owner, stack) ==
    [i \in 1..Len(cc.run.cleanup) |->
        cleanup_list(cc, owner)[Len(cc.run.cleanup) + 1 - i]] \o stack

\* Mutant: the command's cleanup list is appended, not prepended
register_cleanup_appended(cc, owner, stack) == stack \o cleanup_list(cc, owner)

\* self.cleanup = list(command_config.run.cleanup) + self.cleanup
register_cleanup(cc, owner, stack) == cleanup_list(cc, owner) \o stack

\* capture_output = any(isinstance(test, TestOutputModel) for test in ...)
capture_output(cc) == \E i \in 1..Len(cc.run.test) : cc.run.test[i].kind = "output"

\* Mutant: the exit code is not compared with the expected status code
status_mismatch_ignored(cc, returncode) == FALSE

\* proc.returncode != command_config.run.status_code
status_mismatch(cc, returncode) == returncode # cc.run.status_code

\* f"{command_config.command} failed with return code {proc.returncode}
\* (expected: {command_config.run.status_code})."
RuntimeErrorMessage(cc, returncode) ==
    [command |-> format(cc.command, cc.argv), returncode |-> returncode,
     expected |-> cc.run.status_code]

\* Mutant: the command's update_context is dropped
merge_update_context_dropped(ctx, cc) == ctx

\* The context after a command has passed its status check
merge_update_context(ctx, cc) == DictUpdate(ctx, cc.run.update_context)

Stderr == <<"foo", "bla", "bla">>

\* One pass of the for loop of run_commands up to the command's tests, or the
\* end of the loop
run_commands ==
    /\ pc = "run_commands"
    /\ IF cmd_no < Len(part.commands)
       THEN LET cc == part.commands[cmd_no + 1]
            IN /\ cmd_no' = cmd_no + 1
               /\ IF cc.run.skip
                  THEN UNCHANGED <<pc, error, cleanup, context, cwd, command_config, proc,
                                   test_no, log>>
                  ELSE \E outcome \in LaunchOutcomes(cc.argv) :
                       \E out \in (IF capture_output(cc) THEN Outputs ELSE {<<>>}) :
                         IF outcome.raised
                         THEN /\ error' = "FileNotFoundError"
                              /\ pc' = "except"
                              /\ UNCHANGED <<cleanup, context, cwd, command_config, proc,
                                             test_no, log>>
                         ELSE /\ log' = Append(log, CommandEvent(cc,
                                            render_command(cc.command, context),
                                            outcome.returncode,
                                            streams(cc.run.show_output, capture_output(cc),
                                                    show_command_output),
                                            IF status_mismatch(cc, outcome.returncode)
                                            THEN <<RuntimeErrorMessage(cc, outcome.returncode)>>
                                            ELSE <<>>))
                              /\ cleanup' = register_cleanup(cc,
                                                Cardinality(Indices(log', IsCommandRun)), cleanup)
                              /\ IF status_mismatch(cc, outcome.returncode)
                                 THEN /\ error' = "RuntimeError"
                                      /\ pc' = "except"
                                      /\ UNCHANGED <<context, cwd, command_config, proc, test_no>>
                                 ELSE /\ context' = merge_update_context(context, cc)
                                      /\ cwd' = IF cc.run.chdir # None THEN cc.run.chdir ELSE cwd
                                      /\ command_config' = cc
                                      /\ proc' = CompletedProcess(outcome.returncode, out, Stderr)
                                      /\ test_no' = 0
                                      /\ pc' = "run_tests"
                                      /\ UNCHANGED error
       ELSE /\ pc' = "part_end"
            /\ UNCHANGED <<cmd_no, error, cleanup, context, cwd, command_config, proc, test_no,
                           log>>
    /\ UNCHANGED <<environ, environment, tutorial, alternatives, interactive, show_command_output, context_arg, next_part, saved_cwd, scratch, fs, part_no, part,
                   test, tries, asked, drain_no, result>>

\* for test_command_config in command_config.run.test: self.run_test(...)
run_tests ==
    /\ pc = "run_tests"
    /\ IF test_no < Len(command_config.run.test)
       THEN /\ test' = command_config.run.test[test_no + 1]
            /\ test_no' = test_no + 1
            /\ pc' = "run_test"
       ELSE /\ pc' = "run_commands"
            /\ UNCHANGED <<test, test_no>>
    /\ UNCHANGED <<environ, environment, tutorial, alternatives, interactive, show_command_output, context_arg, next_part, context, cleanup, cwd, saved_cwd,
                   scratch, fs, part_no, part, cmd_no, command_config, proc, tries, asked,
                   drain_no, error, result, log>>

\* Mutant: the loop over the tests goes on after a test has raised
run_test_return_continue ==
    /\ pc = "test_return"
    /\ pc' = "run_tests"
    /\ UNCHANGED <<environ, environment, tutorial, alternatives, interactive,
                   show_command_output, context_arg, next_part, context, cleanup, cwd,
                   saved_cwd, scratch, fs, part_no, part, cmd_no, command_config, test_no,
                   test, proc, tries, asked, drain_no, error, result, log>>

\* run_test returns to the loop over the tests, or its exception leaves run_parts
run_test_return ==
    /\ pc = "test_return"
    /\ pc' = IF error = "none" THEN "run_tests" ELSE "except"
    /\ UNCHANGED <<environ, environment, tutorial, alternatives, interactive, show_command_output, context_arg, next_part, context, cleanup, cwd, saved_cwd,
                   scratch, fs, part_no, part, cmd_no, command_config, test_no, test, proc,
                   tries, asked, drain_no, error, result, log>>

----
\* LocalTutorialRunner.write_file (runners/local.py)

DirTexts == {"dest/"}

\* The text of a rendered template
text(r) == IF r.val = "" THEN r.lit ELSE r.val

\* raw_destination.endswith(os.path.sep)
endswith_sep(raw) == text(raw) \in DirTexts

\* Path(raw_destination) and destination / part.source.name, as directory and name
path_of(raw) ==
    IF text(raw) = "dest/a.txt" THEN [dir |-> "dest/", name |-> "a.txt"]
    ELSE [dir |-> "", name |-> text(raw)]
path_join(raw, name) == [dir |-> text(raw), name |-> name]

\* mkdir(parents=True, exist_ok=True) of the directory of a path: the entry of
\* the directory in the file system (none for the working directory)
mkdir(path) == IF path.dir = "" THEN EmptyDict ELSE [dir |-> path.dir, name |-> ""] :> "directory"

\* Mutant: the destination directory is created before the source is looked at
write_file_mkdir_first ==
    /\ pc = "write_file"
    /\ LET raw_destination == render(part.destination, context)
           is_dir == endswith_sep(raw_destination)
           destination == IF is_dir /\ part.source # None
                          THEN path_join(raw_destination, part.source)
                          ELSE path_of(raw_destination)
           contents == IF part.source # None THEN "source contents" ELSE part.contents
       IN IF is_dir /\ part.source = None
          THEN /\ error' = "RuntimeError"
               /\ pc' = "except"
               /\ fs' = DictUpdate(fs, mkdir(path_join(raw_destination, "")))
               /\ UNCHANGED log
          ELSE IF ~is_dir /\ destination \in DOMAIN fs
          THEN /\ error' = "RuntimeError"
               /\ pc' = "except"
               /\ UNCHANGED <<fs, log>>
          ELSE /\ fs' = DictUpdate(fs, mkdir(destination) @@ (destination :> contents))
               /\ log' = Append(log, WriteEvent(destination, contents))
               /\ pc' = "part_end"
               /\ UNCHANGED error
    /\ UNCHANGED <<environ, environment, tutorial, alternatives, interactive, show_command_output, context_arg, next_part, context, cleanup, cwd, saved_cwd,
                   scratch, part_no, part, cmd_no, command_config, test_no, test, proc, tries,
                   asked, drain_no, result>>

write_file ==
    /\ pc = "write_file"
    /\ LET raw_destination == render(part.destination, context)
           is_dir == endswith_sep(raw_destination)
           destination == IF is_dir /\ part.source # None
                          THEN path_join(raw_destination, part.source)
                          ELSE path_of(raw_destination)
           contents == IF part.source # None THEN "source contents" ELSE part.contents
       IN IF is_dir /\ part.source = None
          THEN /\ error' = "RuntimeError"
               /\ pc' = "except"
               /\ UNCHANGED <<fs, log>>
          ELSE IF ~is_dir /\ destination \in DOMAIN fs
          THEN /\ error' = "RuntimeError"
               /\ pc' = "except"
               /\ UNCHANGED <<fs, log>>
          ELSE /\ fs' = DictUpdate(fs, mkdir(destination) @@ (destination :> contents))
               /\ log' = Append(log, WriteEvent(destination, contents))
               /\ pc' = "part_end"
               /\ UNCHANGED error
    /\ UNCHANGED <<environ, environment, tutorial, alternatives, interactive, show_command_output, context_arg, next_part, context, cleanup, cwd, saved_cwd,
                   scratch, part_no, part, cmd_no, command_config, test_no, test, proc, tries,
                   asked, drain_no, result>>

----
\* LocalTutorialRunner.run_prompt (runners/local.py)

Answers == {"", "y", "Yes ", "n", " No ", "foobar"}
EndOfInput == "EOF"
valid_inputs == {"n", "no", "yes", "y", ""}

\* input(prompt).strip().lower()
strip_lower(answer) ==
    IF answer = " No " THEN "no" ELSE IF answer = "Yes " THEN "yes" ELSE answer

\* Mutant: an empty answer always confirms
not_confirmed_by_word(response, default) == response \in {"n", "no"}

not_confirmed(response, default) ==
    response \in {"n", "no"} \/ (response = "" /\ ~default)

run_prompt ==
    /\ pc = "run_prompt"
    /\ \E answer \in Answers \cup {EndOfInput} :
         IF answer = EndOfInput
         THEN /\ error' = "EOFError"
              /\ pc' = "except"
              /\ UNCHANGED <<asked, log>>
         ELSE /\ log' = Append(log, PromptInputEvent(answer))
              /\ asked' = asked + 1
              /\ IF part.response = "enter"
                 THEN pc' = "run_parts" /\ UNCHANGED error
                 ELSE LET response == strip_lower(answer)
                      IN IF response \notin valid_inputs
                         THEN asked < MaxAsk /\ UNCHANGED <<pc, error>>
                         ELSE IF not_confirmed(response, part.default)
                         THEN error' = "PromptNotConfirmedError" /\ pc' = "except"
                         ELSE pc' = "run_parts" /\ UNCHANGED error
    /\ UNCHANGED <<environ, environment, tutorial, alternatives, interactive, show_command_output, context_arg, next_part, context, cleanup, cwd, saved_cwd,
                   scratch, fs, part_no, part, cmd_no, command_config, test_no, test, proc,
                   tries, drain_no, result>>

----
\* The cleanup guard (utils.py: cleanup, _prompt) and the exit of run()

StructuredTutorialErrors ==
    {"PromptNotConfirmedError", "CommandTestError", "CommandOutputTestError",
     "InvalidAlternativesSelectedError", "RequiredExecutableNotFoundError"}

log_level(e) ==
    IF e = "PromptNotConfirmedError" THEN "warning"
    ELSE IF e \in StructuredTutorialErrors THEN "error"
    ELSE "exception"

\* Mutant: _prompt is never reached
pauses_never(e, inter) == FALSE

\* Mutant: every exception of an interactive run reaches _prompt
pauses_for_all(e, inter) == inter

\* _prompt is reached: the exception is not a declined confirmation
pauses(e, inter) == e # "PromptNotConfirmedError" /\ inter

\* The except clauses of cleanup(): log the exception and swallow it; in an
\* interactive run wait for the operator, whose input() may itself raise.
cleanup_except ==
    /\ pc = "except"
    /\ IF pauses(error, interactive)
       THEN \E answer \in {"", EndOfInput} :
              IF answer = EndOfInput
              THEN /\ error' = "EOFError"
                   /\ log' = log \o <<LoggedEvent(log_level(error), error),
                                      InputEvent("pause_eof")>>
              ELSE /\ error' = "none"
                   /\ log' = log \o <<LoggedEvent(log_level(error), error), InputEvent("pause")>>
       ELSE /\ error' = "none"
            /\ log' = Append(log, LoggedEvent(log_level(error), error))
    /\ drain_no' = 0
    /\ pc' = "drain"
    /\ UNCHANGED <<environ, environment, tutorial, alternatives, interactive, show_command_output, context_arg, next_part, context, cleanup, cwd, saved_cwd,
                   scratch, fs, part_no, part, cmd_no, command_config, test_no, test, proc,
                   tries, asked, result>>

\* The finally clause of cleanup(): one pass of the loop over runner.cleanup, or
\* its end.  A cleanup command that cannot be launched raises out of the loop.
\* Mutant: cleanup commands are rendered against the initial context
drain_context_initial == tutorial.context

\* The context run_shell_command renders a cleanup command against:
\* runner.context as it is when the drain runs
drain_context == context

cleanup_finally ==
    /\ pc = "drain"
    /\ IF drain_no < Len(cleanup)
       THEN LET entry == cleanup[drain_no + 1]
            IN \E outcome \in LaunchOutcomes(entry.argv) :
                 IF outcome.raised
                 THEN /\ error' = "FileNotFoundError"
                      /\ pc' = "run_exit"
                      /\ UNCHANGED <<drain_no, log>>
                 ELSE /\ log' = Append(log, CleanupEvent(entry,
                                    render_command(entry.command, drain_context),
                                    streams(entry.show_output, FALSE, show_command_output)))
                      /\ drain_no' = drain_no + 1
                      /\ UNCHANGED <<pc, error>>
       ELSE /\ pc' = "run_exit"
            /\ UNCHANGED <<drain_no, error, log>>
    /\ UNCHANGED <<environ, environment, tutorial, alternatives, interactive, show_command_output, context_arg, next_part, context, cleanup, cwd, saved_cwd,
                   scratch, fs, part_no, part, cmd_no, command_config, test_no, test, proc,
                   tries, asked, result>>

\* Mutant: the saved working directory is not restored
run_exit_without_restore ==
    /\ pc = "run_exit"
    /\ IF scratch = "exists"
       THEN /\ pc' = "rmtree"
            /\ UNCHANGED result
       ELSE /\ result' = IF error = "none" THEN Returned ELSE Raised(error)
            /\ pc' = "done"
    /\ UNCHANGED <<environ, environment, tutorial, alternatives, interactive, show_command_output, context_arg, next_part, context, cleanup, cwd, saved_cwd,
                   scratch, fs, part_no, part, cmd_no, command_config, test_no, test, proc,
                   tries, asked, drain_no, error, log>>

\* Leaving the cleanup guard: with a scratch directory, chdir() restores the
\* saved directory (the finally clause of utils.chdir); without one, run() ends
\* and the caller gets the return or the exception in flight.
run_exit ==
    /\ pc = "run_exit"
    /\ IF scratch = "exists"
       THEN /\ cwd' = saved_cwd
            /\ pc' = "rmtree"
            /\ UNCHANGED result
       ELSE /\ result' = IF error = "none" THEN Returned ELSE Raised(error)
            /\ pc' = "done"
            /\ UNCHANGED cwd
    /\ UNCHANGED <<environ, environment, tutorial, alternatives, interactive, show_command_output, context_arg, next_part, context, cleanup, saved_cwd,
                   scratch, fs, part_no, part, cmd_no, command_config, test_no, test, proc,
                   tries, asked, drain_no, error, log>>

\* Leaving "with tempfile.TemporaryDirectory()": the scratch directory is
\* removed and run() ends.
TemporaryDirectory_exit ==
    /\ pc = "rmtree"
    /\ scratch' = "destroyed"
    /\ result' = IF error = "none" THEN Returned ELSE Raised(error)
    /\ pc' = "done"
    /\ UNCHANGED <<environ, environment, tutorial, alternatives, interactive, show_command_output, context_arg, next_part, context, cleanup, cwd, saved_cwd,
                   fs, part_no, part, cmd_no, command_config, test_no, test, proc, tries, asked,
                   drain_no, error, log>>

----
\* The runner after construction, entered through cli.main ("main") or through
\* a direct call of run() ("run")

Init ==
    /\ environ = DefaultEnviron
    /\ environment = DefaultEnviron
    /\ tutorial \in Tutorials
    /\ alternatives \in AlternativeChoices
    /\ interactive \in BOOLEAN
    /\ show_command_output \in BOOLEAN
    /\ context_arg = EmptyDict
    /\ next_part = 0
    /\ context = tutorial.context
    /\ cleanup = <<>>
    /\ cwd = "/orig"
    /\ saved_cwd = None
    /\ scratch = "none"
    /\ fs = EmptyDict
    /\ pc \in {"main", "run"}
    /\ part_no = 0
    /\ part = NoPart
    /\ cmd_no = 0
    /\ command_config = NoCommand
    /\ test_no = 0
    /\ test = NoTest
    /\ proc = NoProc
    /\ tries = 0
    /\ asked = 0
    /\ drain_no = 0
    /\ error = "none"
    /\ result = Running
    /\ log = <<>>

Next ==
    \/ main
    \/ run
    \/ run_parts
    \/ run_parts_update
    \/ run_commands
    \/ run_tests
    \/ run_test_enter
    \/ run_test_loop
    \/ run_test_return
    \/ write_file
    \/ run_prompt
    \/ cleanup_except
    \/ cleanup_finally
    \/ run_exit
    \/ TemporaryDirectory_exit

Spec == Init /\ [][Next]_vars

----
\* A runner whose run() is called again after it has ended

MaxRuns == 2

RunAgainEvent == [kind |-> "run_again"]
IsRunAgain(e) == e.kind = "run_again"

\* The caller calls run() on the same runner once more: the fields of the
\* runner (context, cleanup) are as the earlier run left them, the locals of
\* run() and of the cleanup guard are new
run_again ==
    /\ pc = "done"
    /\ Cardinality(Indices(log, IsRunAgain)) < MaxRuns - 1
    /\ pc' = "run"
    /\ error' = "none"
    /\ result' = Running
    /\ drain_no' = 0
    /\ log' = Append(log, RunAgainEvent)
    /\ UNCHANGED <<environ, environment, tutorial, alternatives, interactive,
                   show_command_output, context_arg, next_part, context, cleanup, cwd,
                   saved_cwd, scratch, fs, part_no, part, cmd_no, command_config, test_no,
                   test, proc, tries, asked>>

RerunTutorials ==
    {TutorialModel(<<p>>, FALSE, FALSE, "k2" :> "dest/") : p \in {PartA, PartB, PartC}}

InitRerun ==
    /\ environ = DefaultEnviron
    /\ environment = DefaultEnviron
    /\ tutorial \in RerunTutorials
    /\ alternatives = <<>>
    /\ interactive = FALSE
    /\ show_command_output = TRUE
    /\ context_arg = EmptyDict
    /\ next_part = 0
    /\ context = tutorial.context
    /\ cleanup = <<>>
    /\ cwd = "/orig"
    /\ saved_cwd = None
    /\ scratch = "none"
    /\ fs = EmptyDict
    /\ pc = "run"
    /\ part_no = 0
    /\ part = NoPart
    /\ cmd_no = 0
    /\ command_config = NoCommand
    /\ test_no = 0
    /\ test = NoTest
    /\ proc = NoProc
    /\ tries = 0
    /\ asked = 0
    /\ drain_no = 0
    /\ error = "none"
    /\ result = Running
    /\ log = <<>>

NextRerun ==
    \/ run
    \/ run_parts
    \/ run_parts_update
    \/ run_commands
    \/ run_tests
    \/ run_test_enter
    \/ run_test_loop
    \/ run_test_return
    \/ cleanup_except
    \/ cleanup_finally
    \/ run_exit
    \/ run_again

SpecRerun == InitRerun /\ [][NextRerun]_vars

----
\* Properties of the cleanup guard

IsCleanup(e) == e.kind = "cleanup"
IsLogged(e) == e.kind = "logged"

\* The ordinal of the executed command whose run is event i of the history
ordinal(i) == Cardinality({h \in Indices(log, IsCommandRun) : h <= i})

\* Event i is the run of a command that failed its status check
FailedStatusCheck(i) ==
    /\ IsCommandRun(log[i])
    /\ log[i].returncode # log[i].config.run.status_code

\* The cleanup entry is executed after part execution has stopped
DrainedAfterStop(entry) ==
    \E i \in Indices(log, IsCleanup) :
        /\ log[i].entry = entry
        /\ \A j \in i..Len(log) : IsCleanup(log[j])

\* C1: on every exit of run() (normal end, PromptNotConfirmedError, another
\* StructuredTutorialError, any other exception) every cleanup command
\* registered so far is executed after part execution has stopped.
C1_CleanupOnEveryExit ==
    pc = "done" => \A n \in 1..Len(cleanup) : DrainedAfterStop(cleanup[n])

\* The run-time errors of C2: a status-code mismatch, an exhausted test, an
\* output mismatch
RunTimeErrorLogged(i) ==
    /\ IsLogged(log[i])
    /\ \/ log[i].error \in {"CommandTestError", "CommandOutputTestError"}
       \/ log[i].error = "RuntimeError" /\ i > 1 /\ FailedStatusCheck(i - 1)

\* C2: when a run-time error aborts part execution, run() executes the
\* accumulated cleanup commands and then raises that error to its caller.
C2_ErrorRaisedAfterCleanup ==
    pc = "done" =>
        \A i \in 1..Len(log) :
            RunTimeErrorLogged(i) =>
                /\ result = Raised(log[i].error)
                /\ \A n \in 1..Len(cleanup) : DrainedAfterStop(cleanup[n])

\* C3: if command c1 is executed before command c2, every cleanup command of c2
\* is executed before every cleanup command of c1 during the drain, whether or
\* not the commands passed their status checks.
C3_CleanupLifo ==
    \A i \in Indices(log, IsCleanup) : \A j \in Indices(log, IsCleanup) :
        log[i].entry.owner > log[j].entry.owner => i < j

\* C3 witness: two commands ran, the second failed its status check, and the
\* drain has executed a cleanup command of the second and then one of the first.
C3_Witness ==
    /\ pc = "done"
    /\ \E h \in 1..Len(log) : FailedStatusCheck(h) /\ ordinal(h) = 2
    /\ \E i \in Indices(log, IsCleanup) : \E j \in Indices(log, IsCleanup) :
          i < j /\ log[i].entry.owner = 2 /\ log[j].entry.owner = 1

\* C4: a command that was executed and failed its status check still has its
\* own cleanup commands on the cleanup stack, and they are executed during the
\* drain.
C4_FailedCommandCleanupRuns ==
    pc = "done" =>
        \A i \in 1..Len(log) :
            FailedStatusCheck(i) =>
                \A n \in 1..Len(log[i].config.run.cleanup) :
                    /\ \E m \in 1..Len(cleanup) :
                          cleanup[m].owner = ordinal(i) /\ cleanup[m].idx = n
                    /\ \E d \in Indices(log, IsCleanup) :
                          log[d].entry.owner = ordinal(i) /\ log[d].entry.idx = n

----
\* Properties of the context

PassedStatusCheck(e) == IsCommandRun(e) /\ e.returncode = e.config.run.status_code

\* Event e is an update_context (of a command that passed its status check, or
\* of a part) that sets key k
UpdatesKey(e, k) ==
    \/ PassedStatusCheck(e) /\ k \in DOMAIN e.config.run.update_context
    \/ e.kind = "part_update" /\ k \in DOMAIN e.update_context

\* Event e is an output test whose match has a group named k
CapturesKey(e, k) == e.kind = "output_test" /\ e.matched /\ k \in DOMAIN e.groupdict

\* Command run j references k and is rendered with the value that command run i
\* gave k in its update_context
RenderedWithUpdateOf(i, j, k) ==
    log[j].config.command.var = k => log[j].command.val = log[i].config.run.update_context[k]

----
\* Properties of validate_alternatives

ChosenOf(i) == Range(alternatives) \cap DOMAIN tutorial.parts[i].alternatives

\* Part i is a required alternative part none of whose keys is chosen
RequiredUnselected(i) ==
    /\ tutorial.parts[i].type = "alternatives"
    /\ tutorial.parts[i].required
    /\ ChosenOf(i) = {}

\* No alternative part before part i is rejected
AcceptedBefore(i) ==
    \A h \in 1..(i - 1) :
        tutorial.parts[h].type = "alternatives" => Cardinality(ChosenOf(h)) = 1

\* C10: for a required alternative part none of whose keys is chosen,
\* validate_alternatives raises InvalidAlternativesSelectedError, naming the
\* 1-based position of the part (the first part it rejects), and this happens
\* before any command runs: main exits and nothing is executed.
C10_RequiredAlternativeRejected ==
    [][/\ (pc = "main" /\ \E i \in 1..Len(tutorial.parts) : RequiredUnselected(i))
          => /\ pc' = "exit"
             /\ result'.kind = "exit"
             /\ result'.error = "InvalidAlternativesSelectedError"
             /\ log' = <<log'[1]>> /\ log'[1].kind = "error_output"
             /\ \A i \in 1..Len(tutorial.parts) :
                   (RequiredUnselected(i) /\ AcceptedBefore(i))
                   => /\ result'.part_no = i
                      /\ log'[1].part_no = i
                      /\ log'[1].message = "No alternative selected."
       /\ pc # "exit"]_vars

\* C10 witness: main has exited on the required alternative part at position 2
C10_Witness ==
    /\ pc = "exit"
    /\ Len(tutorial.parts) = 2
    /\ RequiredUnselected(2)
    /\ result = Exited(1, "InvalidAlternativesSelectedError", 2)
    /\ log[1].message = "No alternative selected."

\* Part i is an alternative part with two or more of its keys chosen
SeveralChosen(i) ==
    /\ tutorial.parts[i].type = "alternatives"
    /\ Cardinality(ChosenOf(i)) >= 2

\* C11: whenever two or more declared keys of an alternative part are chosen,
\* required or not, validate_alternatives raises
\* InvalidAlternativesSelectedError, and the error raised for the part (the
\* first part rejected) lists the conflicting keys.
C11_ConflictingKeysRejected ==
    [][(pc = "main" /\ \E i \in 1..Len(tutorial.parts) : SeveralChosen(i))
       => /\ pc' = "exit"
          /\ result'.kind = "exit"
          /\ result'.error = "InvalidAlternativesSelectedError"
          /\ \A i \in 1..Len(tutorial.parts) :
                (SeveralChosen(i) /\ AcceptedBefore(i))
                => /\ log'[Len(log')].part_no = i
                   /\ log'[Len(log')].message = "More then one alternative selected"
                   /\ log'[Len(log')].selected = ChosenOf(i)]_vars

\* C11 witness: main has exited on a part that is not required, naming both
\* chosen keys
C11_Witness ==
    /\ pc = "exit"
    /\ ~tutorial.parts[result.part_no].required
    /\ SeveralChosen(result.part_no)
    /\ log[1].message = "More then one alternative selected"
    /\ log[1].selected = {"foo", "bar"}

\* Part i is an alternative part that is not required and has no key chosen
OptionalUnselected(i) ==
    /\ tutorial.parts[i].type = "alternatives"
    /\ ~tutorial.parts[i].required
    /\ ChosenOf(i) = {}

\* C12: validate_alternatives raises no error for an alternative part that is
\* not required when none of its keys is chosen, and at run time such a part is
\* skipped: control is past the part without anything of it having run.
C12_OptionalUnselectedAccepted ==
    /\ pc = "exit" => ~OptionalUnselected(result.part_no)
    /\ (part_no > 0 /\ OptionalUnselected(part_no))
       => pc \in {"part_end", "run_parts", "drain", "run_exit", "rmtree", "done"}

----
\* Properties of run_alternative

\* The positions of run() at which a part is neither being chosen nor executed
OutsidePart == {"main", "exit", "run", "run_parts", "part_end", "run_prompt", "except",
                "drain", "run_exit", "rmtree", "done"}

\* The part being executed is the nested part of the one chosen key of
\* alternative part i
RunsChosenOf(i) ==
    /\ Cardinality(ChosenOf(i)) = 1
    /\ \A k \in ChosenOf(i) : part = tutorial.parts[i].alternatives[k]

\* C13: at run time an alternative part executes at most one alternative: with
\* exactly one chosen key only that alternative's nested part runs (whatever is
\* executed within the part belongs to it), and with no chosen key nothing of the
\* part runs and no error is raised.
C13_AtMostOneAlternativeRuns ==
    [][/\ (part_no > 0 /\ tutorial.parts[part_no].type = "alternatives" /\ pc \notin OutsidePart)
          => /\ RunsChosenOf(part_no)
             /\ (log' # log /\ IsCommandRun(log'[Len(log')]))
                => log'[Len(log')].config \in Range(part.commands)
       /\ (/\ pc = "run_parts" /\ part_no < Len(tutorial.parts)
           /\ tutorial.parts[part_no + 1].type = "alternatives"
           /\ ~tutorial.parts[part_no + 1].run.skip
           /\ ChosenOf(part_no + 1) = {})
          => /\ pc' = "part_end"
             /\ error' = "none"
             /\ UNCHANGED <<log, fs, cleanup, context, cwd>>]_vars

\* C13 witness: the run of a tutorial made of one alternative part, with one key
\* chosen, has executed a command of that alternative
C13_Witness ==
    /\ pc = "run_tests"
    /\ tutorial.parts[part_no].type = "alternatives"
    /\ alternatives = <<"foo">>
    /\ part = tutorial.parts[part_no].alternatives["foo"]
    /\ \E i \in Indices(log, IsCommandRun) : log[i].config \in Range(part.commands)

----
\* Properties of cli.main

\* The chosen alternatives are invalid: a required alternative part has no key
\* chosen, or an alternative part has several
InvalidSelection ==
    \E i \in 1..Len(tutorial.parts) : RequiredUnselected(i) \/ SeveralChosen(i)

\* C14: when the selected alternatives are invalid, main exits with status 1
\* and no part, no command and no cleanup command is executed, then or later.
C14_InvalidSelectionExits ==
    [][/\ (pc = "main" /\ InvalidSelection)
          => /\ pc' = "exit"
             /\ result'.kind = "exit" /\ result'.status = 1
             /\ part_no' = 0
             /\ cleanup' = <<>>
             /\ fs' = EmptyDict
             /\ \A e \in Range(log') : e.kind = "error_output"
       /\ pc = "exit" => FALSE]_vars

\* C14 witness: main has exited with status 1 on an invalid selection for a
\* tutorial whose first part is a commands part with cleanup commands
C14_Witness ==
    /\ pc = "exit"
    /\ result.status = 1
    /\ InvalidSelection
    /\ tutorial.parts[1] = PartA
    /\ log = <<log[1]>>

----
\* RunnerBase.__init__ (runners/base.py): the environment, the context and the
\* check for required executables

\* The programs found in each directory
Executables == ("/bin" :> {"git"}) @@ ("/opt" :> {"tool"}) @@ ("/does/not/exist" :> {})

\* os.defpath
Defpath == <<"/bin">>

\* environment.get("PATH")
get_PATH(env) == IF "PATH" \in DOMAIN env THEN env["PATH"] ELSE EnvNone

\* The directories searched for a PATH value; for None, those of default
SearchPath(path, default) == IF path.unset THEN default ELSE path.dirs

\* shutil.which(executable, path=path): with path None the PATH of os.environ
\* is searched, and os.defpath when os.environ has none
which(executable, path) ==
    LET dirs == SearchPath(path, SearchPath(get_PATH(environ), Defpath))
    IN \E i \in 1..Len(dirs) : executable \in Executables[dirs[i]]

\* Some executable of the list is not found on the PATH of env
not_found(executables, env) ==
    \E i \in 1..Len(executables) : ~which(executables[i], get_PATH(env))

\* The configuration of one alternative (configuration.run.alternatives[key])
AlternativeConfig(environment_, context_, required_executables) ==
    [environment |-> environment_, context |-> context_,
     required_executables |-> required_executables]

\* The loop "for alternative in alternatives" of __init__: the environment and
\* the context it leaves, and whether it raised
RECURSIVE handle_alternatives(_, _, _, _)
handle_alternatives(configs, alts, env, ctx) ==
    IF alts = <<>>
    THEN [raised |-> FALSE, environment |-> env, context |-> ctx]
    ELSE IF Head(alts) \notin DOMAIN configs
    THEN handle_alternatives(configs, Tail(alts), env, ctx)
    ELSE LET config == configs[Head(alts)]
             env2 == DictUpdate(env, config.environment)
             ctx2 == DictUpdate(ctx, config.context)
         IN IF not_found(config.required_executables, env2)
            THEN [raised |-> TRUE, environment |-> env2, context |-> ctx2]
            ELSE handle_alternatives(configs, Tail(alts), env2, ctx2)

\* {k: v for k, v in environment.items() if v is not None}
without_None(env) == [k \in {k \in DOMAIN env : ~env[k].unset} |-> env[k]]

\* An environment value that is a template: the reference {{ var }}
EnvTpl(var) == [unset |-> FALSE, dirs |-> <<>>, var |-> var]

\* self.render(v) of an environment value: a template renders to the text of
\* the variable (the empty string if it is undefined), any other value to itself
render_env(v, ctx) ==
    IF "var" \in DOMAIN v
    THEN EnvValue(<<IF v.var \in DOMAIN ctx THEN ctx[v.var] ELSE "">>)
    ELSE v

\* {k: self.render(v) for k, v in environment.items()}
render_environment(env, ctx) == [k \in DOMAIN env |-> render_env(env[k], ctx)]

\* Mutant: the constructor's context is applied before run.context
initial_context_arg_first(configuration, context_) ==
    DictUpdate(DictUpdate(configuration.context, context_), configuration.run_context)

\* "Compute initial context": configuration.context, updated with
\* configuration.run.context, updated with the context argument if it is given
initial_context(configuration, context_) ==
    DictUpdate(DictUpdate(configuration.context, configuration.run_context), context_)

RunnerBase_init ==
    /\ pc = "init"
    /\ LET base == DictUpdate(IF tutorial.clear_environment THEN EmptyDict ELSE environ,
                              tutorial.environment)
       IN IF not_found(tutorial.required_executables, base)
          THEN /\ error' = "RequiredExecutableNotFoundError"
               /\ result' = Raised("RequiredExecutableNotFoundError")
               /\ pc' = "init_raised"
               /\ UNCHANGED <<environment, context>>
          ELSE LET h == handle_alternatives(tutorial.alternatives, alternatives, base,
                                            initial_context(tutorial, context_arg))
               IN /\ context' = h.context
                  /\ IF h.raised
                     THEN /\ error' = "RequiredExecutableNotFoundError"
                          /\ result' = Raised("RequiredExecutableNotFoundError")
                          /\ pc' = "init_raised"
                          /\ UNCHANGED environment
                     ELSE /\ environment' = render_environment(without_None(h.environment),
                                                                h.context)
                          /\ pc' = "constructed"
                          /\ UNCHANGED <<error, result>>
    /\ cleanup' = <<>>
    /\ UNCHANGED <<environ, tutorial, alternatives, interactive, show_command_output, context_arg, next_part, cwd, saved_cwd, scratch, fs,
                   part_no, part, cmd_no, command_config, test_no, test, proc, tries, asked,
                   drain_no, log>>

\* RunnerBase.run_shell_command: the env given to subprocess.run, for the
\* environment overrides and the clear_environment flag of the call (a call
\* without overrides, environment=None, is a call with the empty map)
ShellEvent(environment_, clear_environment, env) ==
    [kind |-> "run", role |-> "shell", environment |-> environment_,
     clear_environment |-> clear_environment, env |-> env]

\* Mutant: the runner's environment wins over the overrides of the call
shell_env_runner_wins(self_environment, environment_, clear_environment) ==
    IF clear_environment THEN environment_
    ELSE IF environment_ # EmptyDict THEN DictUpdate(environment_, self_environment)
    ELSE self_environment

shell_env(self_environment, environment_, clear_environment) ==
    IF clear_environment THEN environment_
    ELSE IF environment_ # EmptyDict THEN DictUpdate(self_environment, environment_)
    ELSE self_environment

CallEnvironments == {EmptyDict, "PATH" :> EnvValue(<<"/opt">>), "HOME" :> EnvValue(<<"/root">>)}

run_shell_command ==
    /\ pc = "constructed"
    /\ \E environment_ \in CallEnvironments : \E clear_environment \in BOOLEAN :
         log' = Append(log, ShellEvent(environment_, clear_environment,
                               shell_env(environment,
                                         render_environment(environment_, context),
                                         clear_environment)))
    /\ pc' = "launched"
    /\ UNCHANGED <<environ, environment, tutorial, alternatives, interactive, show_command_output, context_arg, next_part, context, cleanup, cwd, saved_cwd,
                   scratch, fs, part_no, part, cmd_no, command_config, test_no, test, proc,
                   tries, asked, drain_no, error, result>>

\* The configurations and the processes a runner is constructed in
Environs == {EmptyDict, "PATH" :> EnvValue(<<"/bin">>), "PATH" :> EnvValue(<<"/opt">>)}
EnvOverrides ==
    {EmptyDict, "PATH" :> EnvNone} \cup
    {"PATH" :> EnvValue(<<d>>) : d \in {"/bin", "/opt", "/does/not/exist"}}

ConfiguredTutorials ==
    {[parts |-> <<>>, temporary_directory |-> FALSE, git_export |-> FALSE,
      context |-> ("k1" :> "base") @@ ("k2" :> "base"), run_context |-> run_context,
      clear_environment |-> clear, environment |-> env,
      required_executables |-> required,
      alternatives |-> ("foo" :> AlternativeConfig(env_foo, "k1" :> "foo-var", required_foo))
                    @@ ("bar" :> AlternativeConfig(env_bar, "k1" :> "bar-var", required_bar))] :
        run_context \in {EmptyDict, ("k1" :> "run") @@ ("k2" :> "run")},
        clear \in BOOLEAN, env \in EnvOverrides,
        required \in {<<>>, <<"git">>, <<"git", "tool">>},
        env_foo \in EnvOverrides, required_foo \in {<<>>, <<"git">>},
        env_bar \in {EmptyDict, "PATH" :> EnvValue(<<"/opt">>)},
        required_bar \in {<<>>, <<"tool">>}}

InitConstruct ==
    /\ environ \in Environs
    /\ environment = EmptyDict
    /\ tutorial \in ConfiguredTutorials
    /\ alternatives \in {<<>>, <<"foo">>, <<"bar">>, <<"bla">>, <<"foo", "bar">>, <<"bar", "foo">>}
    /\ interactive = TRUE
    /\ show_command_output = TRUE
    /\ context_arg \in {EmptyDict, "k1" :> "arg"}
    /\ next_part = 0
    /\ context = EmptyDict
    /\ cleanup = <<>>
    /\ cwd = "/orig"
    /\ saved_cwd = None
    /\ scratch = "none"
    /\ fs = EmptyDict
    /\ pc = "init"
    /\ part_no = 0
    /\ part = NoPart
    /\ cmd_no = 0
    /\ command_config = NoCommand
    /\ test_no = 0
    /\ test = NoTest
    /\ proc = NoProc
    /\ tries = 0
    /\ asked = 0
    /\ drain_no = 0
    /\ error = "none"
    /\ result = Running
    /\ log = <<>>

NextConstruct == RunnerBase_init \/ run_shell_command

SpecConstruct == InitConstruct /\ [][NextConstruct]_vars

\* A constructed runner whose context is updated by a step before a command is
\* run: self.context.update(command_config.run.update_context)
ContextUpdates == {"k1" :> "bar", "k2" :> "foo"}

context_update ==
    /\ pc = "constructed"
    /\ \E update_context \in ContextUpdates :
         /\ context' = merge_update_context(context, [run |-> [update_context |-> update_context]])
         /\ context' # context
    /\ UNCHANGED <<environ, environment, tutorial, alternatives, interactive,
                   show_command_output, context_arg, next_part, cleanup, cwd, saved_cwd,
                   scratch, fs, pc, part_no, part, cmd_no, command_config, test_no, test,
                   proc, tries, asked, drain_no, error, result, log>>

\* Tutorials whose base environment has a templated value
TemplatedTutorials ==
    {[parts |-> <<>>, temporary_directory |-> FALSE, git_export |-> FALSE,
      context |-> "k1" :> "base", run_context |-> run_context,
      clear_environment |-> clear, environment |-> env,
      required_executables |-> <<>>,
      alternatives |-> "foo" :> AlternativeConfig(EmptyDict, "k1" :> "foo-var", <<>>)] :
        run_context \in {EmptyDict, "k2" :> "run"},
        clear \in BOOLEAN,
        env \in {"HOME" :> EnvTpl("k1"), "HOME" :> EnvTpl("k2"),
                 ("HOME" :> EnvTpl("k1")) @@ ("PATH" :> EnvValue(<<"/opt">>))}}

InitRender ==
    /\ environ \in Environs
    /\ environment = EmptyDict
    /\ tutorial \in TemplatedTutorials
    /\ alternatives \in {<<>>, <<"foo">>}
    /\ interactive = TRUE
    /\ show_command_output = TRUE
    /\ context_arg \in {EmptyDict, "k1" :> "arg"}
    /\ next_part = 0
    /\ context = EmptyDict
    /\ cleanup = <<>>
    /\ cwd = "/orig"
    /\ saved_cwd = None
    /\ scratch = "none"
    /\ fs = EmptyDict
    /\ pc = "init"
    /\ part_no = 0
    /\ part = NoPart
    /\ cmd_no = 0
    /\ command_config = NoCommand
    /\ test_no = 0
    /\ test = NoTest
    /\ proc = NoProc
    /\ tries = 0
    /\ asked = 0
    /\ drain_no = 0
    /\ error = "none"
    /\ result = Running
    /\ log = <<>>

NextRender == RunnerBase_init \/ context_update \/ run_shell_command

SpecRender == InitRender /\ [][NextRender]_vars

----
\* Properties of the check for required executables

\* TutorialWrapper (sphinx/utils.py): rendering a tutorial as documentation

\* command_config.doc of a command
CommandDocumentationConfigurationModel(output, update_context) ==
    [output |-> output, update_context |-> update_context]

\* A command as the renderer reads it
DocCommand(command, doc) == [command |-> command, doc |-> doc]

\* part.doc of a file part; caption is a template, "" or False
FileDocumentationConfigurationModel(caption) == [caption |-> caption]

NoCaption == [given |-> "empty", template |-> Tpl("", NoKey)]
FalseCaption == [given |-> "false", template |-> Tpl("", NoKey)]
Caption(template) == [given |-> "text", template |-> template]

DocFile(contents, destination, template, doc) ==
    [type |-> "file", contents |-> contents, destination |-> destination,
     template |-> template, doc |-> doc]

doc1 == DocCommand(Tpl("cd", "k1"),
            CommandDocumentationConfigurationModel(Tpl("", NoKey), "k1" :> "bar"))
doc2 == DocCommand(Tpl("ls", "k1"),
            CommandDocumentationConfigurationModel(Tpl("out", "k1"), "k1" :> "baz"))
doc3 == DocCommand(Tpl("true", "k2"),
            CommandDocumentationConfigurationModel(Tpl("", NoKey), "k2" :> "foo"))

DocPartA == [type |-> "commands", commands |-> <<doc1, doc2>>]
DocPartB == [type |-> "commands", commands |-> <<doc3>>]
DocFileA == DocFile(Tpl("contents", "k1"), Tpl("dest", "k2"), TRUE,
                    FileDocumentationConfigurationModel(NoCaption))
DocFileB == DocFile(Tpl("contents", "k2"), Tpl("dest", NoKey), TRUE,
                    FileDocumentationConfigurationModel(Caption(Tpl("caption", "k1"))))
DocFileRaw == DocFile(Tpl("contents", "k1"), Tpl("dest", NoKey), FALSE,
                      FileDocumentationConfigurationModel(FalseCaption))

DocParts == {DocPartA, DocPartB, DocFileA, DocFileB, DocFileRaw, PromptEnter}

MaxDocParts == 3

DocPartLists ==
    UNION {[1..n -> DocParts] : n \in 0..MaxDocParts}

\* A tutorial as the renderer reads it: its parts, configuration.doc.context and
\* the prompt_template of that context
DocTutorials ==
    {[parts |-> ps, doc_context |-> ctx, prompt_template |-> Tpl("prompt", "k1")] :
        ps \in DocPartLists,
        ctx \in {EmptyDict, "k1" :> "foo", ("k1" :> "foo") @@ ("k2" :> "bla")}}

\* One command of a code block: prompt, command and output
RenderedCommand(prompt, command, output) ==
    [prompt |-> prompt, command |-> command, output |-> output]

\* What render_part returned, for the part it rendered
RenderPartEvent(index, lines) == [kind |-> "render_part", part |-> index, text |-> lines]

\* Mutant: the context is updated before the command is rendered
RECURSIVE render_code_block_update_first(_, _, _)
render_code_block_update_first(commands, prompt_template, ctx) ==
    IF commands = <<>> THEN [text |-> <<>>, context |-> ctx]
    ELSE LET cc == Head(commands)
             ctx2 == DictUpdate(ctx, cc.doc.update_context)
             rendered == RenderedCommand(render(prompt_template, ctx2),
                                         render(cc.command, ctx2),
                                         render(cc.doc.output, ctx2))
             rest == render_code_block_update_first(Tail(commands), prompt_template, ctx2)
         IN [text |-> <<rendered>> \o rest.text, context |-> rest.context]

\* render_code_block: each command is rendered against the context, which is
\* then updated from the command's doc.update_context
RECURSIVE render_code_block(_, _, _)
render_code_block(commands, prompt_template, ctx) ==
    IF commands = <<>> THEN [text |-> <<>>, context |-> ctx]
    ELSE LET cc == Head(commands)
             rendered == RenderedCommand(render(prompt_template, ctx),
                                         render(cc.command, ctx),
                                         render(cc.doc.output, ctx))
             rest == render_code_block(Tail(commands), prompt_template,
                                       DictUpdate(ctx, cc.doc.update_context))
         IN [text |-> <<rendered>> \o rest.text, context |-> rest.context]

\* render_file: nothing for a file that is not a template; otherwise the
\* rendered contents and caption (the destination where no caption is given)
render_file(p, ctx) ==
    IF ~p.template THEN <<>>
    ELSE <<[content |-> render(p.contents, ctx),
            caption |-> IF p.doc.caption.given = "text"
                        THEN render(p.doc.caption.template, ctx)
                        ELSE IF p.doc.caption.given # "false"
                        THEN render(p.destination, ctx)
                        ELSE render(Tpl("", NoKey), ctx)]>>

\* One call of render_part: self.tutorial.parts[self.next_part] raises
\* IndexError past the last part, and a part that is neither a commands nor a
\* file part raises ValueError; neither advances next_part.
render_part ==
    /\ pc = "render_part"
    /\ IF next_part >= Len(tutorial.parts)
       THEN /\ error' = "IndexError"
            /\ UNCHANGED <<context, next_part, log>>
       ELSE LET p == tutorial.parts[next_part + 1]
            IN IF p.type = "commands"
               THEN LET r == render_code_block(p.commands, tutorial.prompt_template, context)
                    IN /\ context' = r.context
                       /\ log' = Append(log, RenderPartEvent(next_part, r.text))
                       /\ next_part' = next_part + 1
                       /\ UNCHANGED error
               ELSE IF p.type = "file"
               THEN /\ log' = Append(log, RenderPartEvent(next_part, render_file(p, context)))
                    /\ next_part' = next_part + 1
                    /\ UNCHANGED <<context, error>>
               ELSE /\ error' = "ValueError"
                    /\ UNCHANGED <<context, next_part, log>>
    /\ UNCHANGED <<environ, environment, tutorial, alternatives, interactive,
                   show_command_output, context_arg, cleanup, cwd, saved_cwd, scratch, fs, pc,
                   part_no, part, cmd_no, command_config, test_no, test, proc, tries, asked,
                   drain_no, result>>

\* TutorialWrapper.__init__
InitDoc ==
    /\ environ = DefaultEnviron
    /\ environment = DefaultEnviron
    /\ tutorial \in DocTutorials
    /\ alternatives = <<>>
    /\ interactive = FALSE
    /\ show_command_output = TRUE
    /\ context_arg = EmptyDict
    /\ next_part = 0
    /\ context = tutorial.doc_context
    /\ cleanup = <<>>
    /\ cwd = "/orig"
    /\ saved_cwd = None
    /\ scratch = "none"
    /\ fs = EmptyDict
    /\ pc = "render_part"
    /\ part_no = 0
    /\ part = NoPart
    /\ cmd_no = 0
    /\ command_config = NoCommand
    /\ test_no = 0
    /\ test = NoTest
    /\ proc = NoProc
    /\ tries = 0
    /\ asked = 0
    /\ drain_no = 0
    /\ error = "none"
    /\ result = Running
    /\ log = <<>>

NextDoc == render_part

SpecDoc == InitDoc /\ [][NextDoc]_vars

----
\* The environment with the base overrides and the overrides of every selected
\* alternative applied
RECURSIVE compose(_, _, _)
compose(configs, alts, env) ==
    IF alts = <<>> THEN env
    ELSE compose(configs, Tail(alts),
                 IF Head(alts) \in DOMAIN configs
                 THEN DictUpdate(env, configs[Head(alts)].environment) ELSE env)

ComposedEnvironment ==
    compose(tutorial.alternatives, alternatives,
            DictUpdate(IF tutorial.clear_environment THEN EmptyDict ELSE environ,
                       tutorial.environment))

\* The executables required globally or by a selected alternative
RequiredExecutables ==
    Range(tutorial.required_executables) \cup
    UNION {Range(tutorial.alternatives[a].required_executables) :
              a \in Range(alternatives) \cap DOMAIN tutorial.alternatives}

\* The executable is found on the PATH of env (on os.defpath when env has none)
ResolvesOn(executable, env) ==
    LET dirs == SearchPath(get_PATH(env), Defpath)
    IN \E i \in 1..Len(dirs) : executable \in Executables[dirs[i]]

\* C15: constructing a runner raises RequiredExecutableNotFoundError, before
\* anything runs, if a globally required executable or an executable required by
\* a selected alternative does not resolve on the PATH of the composed
\* environment: a constructed runner has all of them resolving, and a raise
\* leaves nothing executed.
C15_RequiredExecutablesResolve ==
    /\ pc = "constructed"
       => \A executable \in RequiredExecutables : ResolvesOn(executable, ComposedEnvironment)
    /\ pc = "init_raised"
       => result = Raised("RequiredExecutableNotFoundError") /\ log = <<>> /\ part_no = 0

----
\* Properties of the pause of the cleanup guard

\* The guard's "Press Enter to continue" prompt: answered, or ended by the end
\* of the input
IsPause(e) == e.kind = "input" /\ e.what \in {"pause", "pause_eof"}

\* The events a step adds to the history
Added == {i \in 1..Len(log') : i > Len(log)}

IsFailure(e) == IsLogged(e) /\ e.error # "PromptNotConfirmedError"

----
\* Properties of a failed run

\* The positions of run() in the cleanup guard and after it
Stopped == {"except", "drain", "run_exit", "rmtree", "done"}

\* C18: after a command fails its status check, a test fails, or a part raises
\* any error, no later command, test, file write, prompt or part of the run is
\* executed; only cleanup commands run afterwards (with the guard's log entry
\* and pause).
C18_NothingRunsAfterFailure ==
    /\ [](/\ (\E i \in 1..Len(log) : FailedStatusCheck(i) \/ IsLogged(log[i])) => pc \in Stopped
          /\ error # "none" => pc \in Stopped \cup {"test_return"})
    /\ [][(pc \in Stopped \/ error # "none")
          => /\ pc' \in Stopped
             /\ UNCHANGED <<part_no, cmd_no, test_no, asked, fs, context, cleanup>>
             /\ \A i \in Added : IsCleanup(log'[i]) \/ IsLogged(log'[i]) \/ IsPause(log'[i])]_vars

\* C18 witness: the first of two parts failed a status check, and the run ended
\* with cleanup commands executed and the second part never taken
C18_Witness ==
    /\ pc = "done"
    /\ Len(tutorial.parts) = 2
    /\ part_no = 1
    /\ \E i \in 1..Len(log) : FailedStatusCheck(i)
    /\ IsCleanup(log[Len(log)])

----
\* Properties of prompt parts

\* C19: a prompt part reads operator input only when the run is interactive; in
\* a run that is not interactive no prompt is shown and execution continues with
\* the next part.
C19_PromptOnlyWhenInteractive ==
    [][/\ (/\ pc = "run_parts" /\ part_no < Len(tutorial.parts)
           /\ tutorial.parts[part_no + 1].type = "prompt")
          => /\ part_no' = part_no + 1
             /\ pc' = IF interactive THEN "run_prompt" ELSE "run_parts"
             /\ UNCHANGED <<log, context, error>>
       /\ pc = "run_prompt" => interactive
       /\ (\E i \in Added : log'[i].kind = "input" /\ log'[i].what = "prompt")
          => interactive /\ pc = "run_prompt" /\ part.type = "prompt"]_vars

\* C19 witness: a run that is not interactive has passed a prompt part and
\* executed a command of the part after it, with no input read
C19_Witness ==
    /\ ~interactive
    /\ Len(tutorial.parts) = 2
    /\ tutorial.parts[1].type = "prompt"
    /\ part_no = 2
    /\ \E i \in 1..Len(log) : IsCommandRun(log[i])
    /\ \A i \in 1..Len(log) : log[i].kind # "input"

\* The answers that confirm, and those that decline, once trimmed and lower-cased
Confirming == {"y", "Yes "}
Declining == {"n", " No "}

\* The step reads an answer to a confirm prompt
ReadsConfirmAnswer ==
    /\ pc = "run_prompt"
    /\ part.response = "confirm"
    /\ log' # log

\* C20: a confirm prompt asks again until the trimmed, lower-cased answer is one
\* of y, yes, n, no or empty; it raises PromptNotConfirmedError exactly when the
\* answer is n or no, or is empty while the part's default is false, and
\* otherwise the run continues with the next part.
C20_ConfirmPrompt ==
    [][/\ ReadsConfirmAnswer
          => LET answer == log'[Len(log')].answer
                 declined == answer \in Declining \/ (answer = "" /\ ~part.default)
             IN /\ log' = Append(log, PromptInputEvent(answer))
                /\ IF answer \notin Confirming \cup Declining \cup {""}
                   THEN pc' = "run_prompt" /\ UNCHANGED <<part_no, part, error>>
                   ELSE IF declined
                   THEN pc' = "except" /\ error' = "PromptNotConfirmedError"
                   ELSE pc' = "run_parts" /\ error' = "none"
       /\ (error' = "PromptNotConfirmedError" /\ error # "PromptNotConfirmedError")
          => ReadsConfirmAnswer]_vars

\* C20 witness: a confirm prompt whose default is false was asked twice and
\* raised on the empty second answer
C20_Witness ==
    /\ pc = "except"
    /\ error = "PromptNotConfirmedError"
    /\ part.type = "prompt" /\ ~part.default
    /\ asked = 2
    /\ log[Len(log) - 1] = PromptInputEvent("foobar")
    /\ log[Len(log)] = PromptInputEvent("")

----
\* Properties of write_file

IsWrite(e) == e.kind = "write"

\* C21: write_file never writes to a final destination path that already
\* exists: it raises an error and the existing file's contents are unchanged.
C21_NeverOverwrites ==
    [][/\ \A path \in DOMAIN fs : path \in DOMAIN fs' /\ fs'[path] = fs[path]
       /\ \A i \in Added : IsWrite(log'[i]) => log'[i].path \notin DOMAIN fs
       /\ (/\ pc = "write_file"
           /\ \E path \in DOMAIN fs :
                 path = (IF endswith_sep(render(part.destination, context)) /\ part.source # None
                         THEN path_join(render(part.destination, context), part.source)
                         ELSE path_of(render(part.destination, context))))
          => pc' = "except" /\ error' = "RuntimeError"]_vars

\* C22: a file part whose rendered destination ends with the path separator
\* and that has no source raises an error before any directory or file is
\* created.
C22_DirectoryWithoutSourceRejected ==
    [][(/\ pc = "write_file"
        /\ text(render(part.destination, context)) = "dest/"
        /\ part.source = None)
       => /\ pc' = "except"
          /\ error' = "RuntimeError"
          /\ UNCHANGED <<fs, log>>]_vars

\* C22 witness: the file part with contents and a destination template that
\* renders to "dest/" has raised, and the file system is empty
C22_Witness ==
    /\ pc = "except"
    /\ error = "RuntimeError"
    /\ part = FileDir
    /\ text(render(part.destination, context)) = "dest/"
    /\ fs = EmptyDict

----
\* Properties of the scratch directory

ScratchMode == tutorial.temporary_directory \/ tutorial.git_export

\* C23: in temporary-directory mode and in export mode, on every exit path the
\* cleanup drain runs first, then the original working directory is restored,
\* then the scratch directory is destroyed; after run() the working directory
\* equals the one before run().
C23_DrainRestoreDestroy ==
    /\ [](/\ (ScratchMode /\ pc = "done") => cwd = "/orig" /\ scratch = "destroyed"
          /\ (ScratchMode /\ pc \in {"run_parts", "except", "drain", "run_exit"})
             => scratch = "exists" /\ saved_cwd = "/orig"
          /\ pc = "rmtree" => cwd = "/orig" /\ scratch = "exists")
    /\ [][/\ (\E i \in Added : IsCleanup(log'[i])) => pc = "drain"
          /\ (ScratchMode /\ pc = "run_exit")
             => /\ pc' = "rmtree"
                /\ cwd' = "/orig"
                /\ UNCHANGED <<scratch, log>>
          /\ pc = "rmtree"
             => /\ pc' = "done"
                /\ scratch' = "destroyed"
                /\ UNCHANGED <<cwd, log>>]_vars

\* C23 witness: a run in a scratch directory changed the working directory,
\* failed, executed a cleanup command, and ended in the original directory with
\* the scratch directory destroyed
C23_Witness ==
    /\ pc = "done"
    /\ ScratchMode
    /\ \E i \in Indices(log, IsCommandRun) : log[i].config.run.chdir = "/other"
    /\ \E i \in 1..Len(log) : IsLogged(log[i])
    /\ \E i \in 1..Len(log) : IsCleanup(log[i])
    /\ cwd = "/orig"
    /\ scratch = "destroyed"

----
\* Properties of the environment of a command's process

IsShell(e) == e.kind = "run" /\ e.role = "shell"

\* The inherited process environment, or the empty map when the run's
\* clear_environment is set
Inherited == IF tutorial.clear_environment THEN EmptyDict ELSE environ

\* C24 as claimed: the environment passed to a command's process equals the
\* inherited process environment (or the empty map when clear_environment is
\* set) overlaid by the configured base overrides and then by the command's own
\* environment overrides, the later overlay winning on equal keys (a base
\* override of None unsets the variable).
C24_EnvironmentOverlay ==
    \A i \in 1..Len(log) :
        IsShell(log[i])
        => log[i].env = DictUpdate(without_None(DictUpdate(Inherited, tutorial.environment)),
                                   log[i].environment)

\* C24 amended: the environment passed to a command's process equals the
\* inherited process environment (or the empty map when the run's
\* clear_environment is set) overlaid by the configured base overrides, then by
\* the environment overrides of each selected alternative in selection order,
\* with the entries whose value is None removed, and then by the environment
\* overrides of the call, the later overlay winning on equal keys; a call that
\* sets clear_environment passes its own overrides only.
C24_EnvironmentOverlayWithAlternatives ==
    \A i \in 1..Len(log) :
        IsShell(log[i])
        => log[i].env =
              IF log[i].clear_environment THEN log[i].environment
              ELSE DictUpdate(without_None(ComposedEnvironment), log[i].environment)

\* C24 witness: a process was given a PATH by the call's overrides over the
\* PATH of a runner constructed with base overrides and two selected alternatives
C24_Witness ==
    /\ pc = "launched"
    /\ Len(alternatives) = 2
    /\ "PATH" \in DOMAIN tutorial.environment
    /\ "PATH" \in DOMAIN environment
    /\ ~log[1].clear_environment
    /\ log[1].environment = ("PATH" :> EnvValue(<<"/opt">>))
    /\ log[1].env["PATH"] = EnvValue(<<"/opt">>)
    /\ environment["PATH"] # EnvValue(<<"/opt">>)

----
\* Properties of the output streams of the commands run

IsProcess(e) == e.kind = "cleanup" \/ (e.kind = "run" /\ e.role \in {"command", "test"})

\* show_output at the command's own scope
ShowOutputOf(e) ==
    IF e.kind = "cleanup" THEN e.entry.show_output
    ELSE IF e.role = "test" THEN e.show_output
    ELSE e.config.run.show_output

\* Whether the process is a command one of whose tests is an output test
HasOutputTest(e) ==
    /\ e.kind = "run"
    /\ e.role = "command"
    /\ \E i \in 1..Len(e.config.run.test) : e.config.run.test[i].kind = "output"

\* C25: the stdout and stderr of a command are captured whenever any of its
\* tests is an output test; unless captured, they are inherited only when
\* show_output is true at both command scope and run scope, and suppressed when
\* it is false at either scope. Test commands and cleanup commands, which are
\* never captured, follow the same rule.
C25_OutputStreams ==
    \A i \in 1..Len(log) :
        IsProcess(log[i])
        => /\ HasOutputTest(log[i]) <=> log[i].stdout = "PIPE"
           /\ ~HasOutputTest(log[i])
              => /\ log[i].stdout = "None" <=> (ShowOutputOf(log[i]) /\ show_command_output)
                 /\ log[i].stdout = "DEVNULL"
                       <=> (~ShowOutputOf(log[i]) \/ ~show_command_output)

\* C25 witness: in a run that shows command output, a command with an output
\* test was captured, a command and a test command that hide their output were
\* suppressed, and a cleanup command inherited the streams
C25_Witness ==
    /\ show_command_output
    /\ \E i \in 1..Len(log) : HasOutputTest(log[i]) /\ log[i].stdout = "PIPE"
    /\ \E i \in 1..Len(log) :
          /\ log[i].kind = "run" /\ log[i].role = "command"
          /\ ~ShowOutputOf(log[i]) /\ log[i].stdout = "DEVNULL"
    /\ \E i \in 1..Len(log) :
          /\ log[i].kind = "cleanup"
          /\ ShowOutputOf(log[i]) /\ log[i].stdout = "None"

\* C25 witness of the run scope: a run that hides command output suppressed a
\* test command that shows its output
C25_WitnessRunScope ==
    /\ ~show_command_output
    /\ \E i \in 1..Len(log) :
          /\ log[i].kind = "run" /\ log[i].role = "test"
          /\ ShowOutputOf(log[i]) /\ log[i].stdout = "DEVNULL"

----
\* Properties of the status-mismatch error

\* A command whose status code was not the expected one
StatusMismatch(e) == e.kind = "run" /\ e.role = "command" /\ e.raised # <<>>

\* C26: the status-mismatch error identifies the rendered command (its
\* templates substituted with the current context), the actual exit code and
\* the expected exit code.
C26_MismatchNamesRenderedCommand ==
    \A i \in 1..Len(log) :
        StatusMismatch(log[i])
        => /\ log[i].raised[1].command = Shown(log[i].command)
           /\ log[i].raised[1].returncode = log[i].returncode
           /\ log[i].raised[1].expected = log[i].config.run.status_code

\* The part of C26 that the code keeps: the error names the actual and the
\* expected exit code
C26_MismatchNamesExitCodes ==
    \A i \in 1..Len(log) :
        StatusMismatch(log[i])
        => /\ log[i].raised[1].returncode = log[i].returncode
           /\ log[i].raised[1].expected = log[i].config.run.status_code

----
\* Properties of the initial context

\* The context with the context of every selected alternative applied
RECURSIVE compose_context(_, _, _)
compose_context(configs, alts, ctx) ==
    IF alts = <<>> THEN ctx
    ELSE compose_context(configs, Tail(alts),
                         IF Head(alts) \in DOMAIN configs
                         THEN DictUpdate(ctx, configs[Head(alts)].context) ELSE ctx)

\* C27: the initial context is configuration.context overlaid by run.context,
\* then by the context passed to the runner, then by the context of each
\* selected alternative in selection order; a later layer wins on equal keys,
\* and selected alternatives' environment overrides are layered over the base
\* environment in the same order (an override of None unsets the variable).
C27_InitialContextLayers ==
    pc \in {"constructed", "launched"}
    => /\ context = compose_context(tutorial.alternatives, alternatives,
                        DictUpdate(DictUpdate(tutorial.context, tutorial.run_context),
                                   context_arg))
       /\ environment = without_None(ComposedEnvironment)

\* C27 witness: a runner constructed with a run.context, a context argument and
\* two selected alternatives that all set k1, the second alternative also
\* overriding the PATH; k2 comes from run.context
C27_Witness ==
    /\ pc = "constructed"
    /\ alternatives = <<"foo", "bar">>
    /\ "k1" \in DOMAIN tutorial.run_context
    /\ "k1" \in DOMAIN context_arg
    /\ context["k1"] = "bar-var"
    /\ context["k2"] = "run"
    /\ tutorial.alternatives["foo"].environment # EmptyDict
    /\ tutorial.alternatives["bar"].environment # EmptyDict
    /\ environment["PATH"] = EnvValue(<<"/opt">>)

----
\* Properties of the documentation renderer

\* The doc.update_context of every command that precedes command j of part p
\* (parts and commands counted from 1), in order
RECURSIVE UpdatesBefore(_, _)
UpdatesBefore(p, j) ==
    IF p = 0 THEN <<>>
    ELSE IF tutorial.parts[p].type # "commands" THEN UpdatesBefore(p - 1, 0)
    ELSE IF j = 0 THEN UpdatesBefore(p - 1, 0) \o
                       [n \in 1..Len(tutorial.parts[p].commands) |->
                           tutorial.parts[p].commands[n].doc.update_context]
    ELSE UpdatesBefore(p - 1, 0) \o
         [n \in 1..(j - 1) |-> tutorial.parts[p].commands[n].doc.update_context]

RECURSIVE Overlay(_, _)
Overlay(ctx, updates) ==
    IF updates = <<>> THEN ctx
    ELSE Overlay(DictUpdate(ctx, Head(updates)), Tail(updates))

\* The context with the update_context of every command before command j of
\* part p merged
ContextBefore(p, j) ==
    Overlay(tutorial.doc_context,
            IF j = 0 THEN UpdatesBefore(p - 1, 0) ELSE UpdatesBefore(p, j))

\* C28: TutorialWrapper.render_part renders the tutorial's parts strictly in
\* order, one part per call, and a command's doc.update_context changes the
\* context used to render every later command and part but not that command
\* itself.
C28_RenderPartInOrder ==
    /\ [](/\ Len(log) = next_part
          /\ \A i \in 1..Len(log) :
                LET p == tutorial.parts[i]
                IN /\ log[i].part = i - 1
                   /\ p.type = "commands"
                      => /\ Len(log[i].text) = Len(p.commands)
                         /\ \A j \in 1..Len(p.commands) :
                               /\ log[i].text[j].command
                                     = render(p.commands[j].command, ContextBefore(i, j))
                               /\ log[i].text[j].prompt
                                     = render(tutorial.prompt_template, ContextBefore(i, j))
                               /\ log[i].text[j].output
                                     = render(p.commands[j].doc.output, ContextBefore(i, j))
                   /\ p.type = "file"
                      => log[i].text = render_file(p, ContextBefore(i, 0)))
    /\ [][\/ /\ Len(log') = Len(log) + 1
             /\ next_part' = next_part + 1
             /\ log'[Len(log')].part = next_part
          \/ UNCHANGED <<log, next_part, context>>]_vars

\* C28 witness: after a code block whose commands update k1, a file part was
\* rendered against the updated context, and the second command of the block
\* against the first command's update
C28_Witness ==
    /\ Len(log) = 2
    /\ tutorial.parts[1] = DocPartA
    /\ tutorial.parts[2] = DocFileA
    /\ tutorial.doc_context = ("k1" :> "foo")
    /\ log[1].text[1].command.val = "foo"
    /\ log[1].text[2].command.val = "bar"
    /\ log[2].text[1].content.val = "baz"

----
\* Properties of the cleanup stack

\* The cleanup entries registered so far: those of every command executed
Registered ==
    UNION {Range(cleanup_list(log[i].config, ordinal(i))) : i \in Indices(log, IsCommandRun)}

\* Every registered entry is on the stack, once
StackHoldsRegistered ==
    /\ Range(cleanup) = Registered
    /\ Len(cleanup) = Cardinality(Registered)

\* Entry a was registered before entry b, the entries of one command being
\* registered in their listed order
RegisteredBefore(a, b) ==
    \/ a.owner < b.owner
    \/ a.owner = b.owner /\ a.idx < b.idx

\* C29 as claimed: at every point of a run the cleanup stack is exactly the
\* reverse of the order in which cleanup entries were registered, where the
\* entries of one command's ordered cleanup list are registered in their listed
\* order.
C29_StackReversesRegistration ==
    /\ StackHoldsRegistered
    /\ \A m \in 1..Len(cleanup) : \A n \in 1..Len(cleanup) :
          m < n => RegisteredBefore(cleanup[n], cleanup[m])

\* C29 amended: at every point of a run the cleanup stack is the concatenation
\* of the cleanup lists of the commands executed so far, the list of the most
\* recently executed command first and each list in its listed order.
C29_StackReversesCommands ==
    /\ StackHoldsRegistered
    /\ \A m \in 1..Len(cleanup) : \A n \in 1..Len(cleanup) :
          m < n => \/ cleanup[m].owner > cleanup[n].owner
                   \/ /\ cleanup[m].owner = cleanup[n].owner
                      /\ cleanup[m].idx < cleanup[n].idx

\* C29 witness: a command with one cleanup entry and then a command with two
\* have been executed, and the stack holds the three entries
C29_Witness ==
    /\ Len(cleanup) = 3
    /\ cleanup[1].owner = 2 /\ cleanup[1].idx = 1
    /\ cleanup[2].owner = 2 /\ cleanup[2].idx = 2
    /\ cleanup[3].owner = 1

----
\* Properties of the order of tests and update_context

TestErrors == {"CommandTestError", "CommandOutputTestError"}

\* C30: for each command of a Commands part the engine executes the command,
\* then runs its tests, and only then merges the command's update_context: the
\* command's tests are rendered against the context without that update, and a
\* command whose test fails has merged nothing.
C30_UpdateContextAfterTests ==
    /\ [][(pc = "run_commands" /\ pc' = "run_tests"
           /\ Len(command_config'.run.test) > 0)
          => context' = context]_vars
    /\ [](pc = "except" /\ error \in TestErrors
          => \A k \in DOMAIN command_config.run.update_context :
                k \notin DOMAIN context
                \/ context[k] # command_config.run.update_context[k])

----
\* Properties of the rendering of environment values

\* The base overrides the process was given unchanged: not replaced by an
\* override of the call, and the call did not clear the environment
BaseKeysOf(e) ==
    IF e.clear_environment THEN {}
    ELSE DOMAIN without_None(tutorial.environment) \ DOMAIN e.environment

\* C31: every templated value, including base and per-command environment
\* values, is rendered against the context as it is when the command using it
\* executes, so a context update made by an earlier step is visible in the
\* environment of every later command.
C31_EnvironmentRenderedAtUse ==
    pc = "launched"
    => \A i \in 1..Len(log) :
          IsShell(log[i])
          => /\ \A k \in BaseKeysOf(log[i]) :
                   log[i].env[k] = render_env(tutorial.environment[k], context)
             /\ \A k \in DOMAIN log[i].environment :
                   log[i].env[k] = render_env(log[i].environment[k], context)

----
\* Properties of the cleanup drain

\* C32: during the cleanup drain, a cleanup command that exits non-zero or that
\* fails to render or to launch raises nothing to the caller and does not
\* prevent the remaining cleanup commands from executing: every step of the
\* drain leaves the pending error as it was and, while entries remain, executes
\* the next one.
C32_DrainNeverRaises ==
    [][pc = "drain"
       => /\ error' = error
          /\ drain_no < Len(cleanup)
             => /\ drain_no' = drain_no + 1
                /\ Len(log') = Len(log) + 1
                /\ IsCleanup(log'[Len(log')])
                /\ log'[Len(log')].entry = cleanup[drain_no + 1]]_vars

\* C33: each cleanup command is rendered at drain time against the final
\* context of the run, not against the context at the time it was registered.
C33_CleanupRenderedAtDrain ==
    \A i \in Indices(log, IsCleanup) :
        log[i].command = render_command(log[i].entry.command, context)

\* C33 witness: a cleanup command referring to k1 was registered by a command
\* rendered with k1 = bar, a later command set k1 = baz, and the drain executed
\* the cleanup command rendered with baz
C33_Witness ==
    /\ pc = "done"
    /\ \E i \in Indices(log, IsCleanup) : \E h \in Indices(log, IsCommandRun) :
          /\ log[i].entry.command = Tpl("clean_b", "k1")
          /\ log[i].entry.owner = ordinal(h)
          /\ log[h].command.val = "bar"
          /\ log[i].command.val = "baz"

\* C34: each registered cleanup entry is executed exactly once: after run() has
\* drained the stack, a further run() on the same runner does not execute
\* entries registered by the earlier run again.
C34_CleanupExecutedOnce ==
    \A i \in Indices(log, IsCleanup) : \A j \in Indices(log, IsCleanup) :
        log[i].entry = log[j].entry => i = j

----
\* Properties of the tests of a command

InTests == pc \in {"run_tests", "run_test", "test_loop", "test_return"}

IsTestEvent(e) == IsProbe(e) \/ IsSleep(e) \/ e.kind = "output_test"

\* The run of the command executed last
LastCommandRun ==
    CHOOSE h \in Indices(log, IsCommandRun) : \A g \in Indices(log, IsCommandRun) : g <= h

\* C35: a command's tests run only after the command passed its status check,
\* in their listed order, and the first failing test prevents every later test
\* of that command from running.
C35_TestsInOrderUntilFailure ==
    /\ [](InTests
          => /\ Indices(log, IsCommandRun) # {}
             /\ log[LastCommandRun].config = command_config
             /\ ~FailedStatusCheck(LastCommandRun)
             /\ \A i \in 1..Len(log) : IsTestEvent(log[i]) /\ i > LastCommandRun
                   => test_no >= 1)
    /\ [][/\ (\E i \in Added : IsTestEvent(log'[i]))
             => /\ pc \in {"run_test", "test_loop"}
                /\ error = "none"
                /\ test = command_config.run.test[test_no]
          /\ test_no' # test_no
             => \/ pc = "run_commands" /\ test_no' = 0
                \/ /\ pc = "run_tests" /\ error = "none"
                   /\ test_no' = test_no + 1
                   /\ test' = command_config.run.test[test_no']
          /\ (InTests /\ error # "none")
             => pc' \in {"test_return", "except"} /\ error' = error]_vars

\* C35 witness: the first of a command's two tests failed and the run has ended
\* without the second test having been started
C35_Witness ==
    /\ pc = "done"
    /\ \E i \in 1..Len(log) : IsLogged(log[i]) /\ log[i].error = "CommandTestError"
    /\ Len(command_config.run.test) = 2
    /\ test_no = 1
    /\ \E i \in 1..Len(log) : log[i].kind = "connect"
    /\ \A i \in 1..Len(log) : ~(log[i].kind = "run" /\ log[i].role = "test")

----
\* Properties of the working directory without a scratch directory

\* C36: without a scratch directory, the process working directory after run()
\* returns equals the working directory before run(), also when a command's
\* chdir setting changed it during the run.
C36_WorkingDirectoryKept ==
    (pc = "done" /\ ~tutorial.temporary_directory /\ ~tutorial.git_export)
    => cwd = "/orig"

----
\* Properties of a pause whose input fails

PauseFailed == \E i \in 1..Len(log) : log[i] = InputEvent("pause_eof")

\* C37: if reading the operator's answer to the error pause itself fails (end
\* of input or an interrupt), the accumulated cleanup commands are still
\* executed.
C37_CleanupAfterFailedPause ==
    (pc = "done" /\ PauseFailed) => \A n \in 1..Len(cleanup) : DrainedAfterStop(cleanup[n])

\* The same where every cleanup command could be launched: run() then raises
\* the error of the failed input
C37_CleanupAfterFailedPauseLaunched ==
    (pc = "done" /\ PauseFailed /\ result = Raised("EOFError"))
    => \A n \in 1..Len(cleanup) : DrainedAfterStop(cleanup[n])

----
\* Properties of the skip flag

\* The part is being executed
Executing ==
    pc \in {"run_commands", "run_tests", "run_test", "test_loop", "test_return", "write_file"}

\* A step that passes over a skipped command, and one that passes over a
\* skipped part, change nothing but the position
SkipsChangeNothing ==
    [][/\ (/\ pc = "run_commands" /\ cmd_no < Len(part.commands)
           /\ part.commands[cmd_no + 1].run.skip)
          => pc' = "run_commands" /\ UNCHANGED <<context, cleanup, fs, cwd, log>>
       /\ (/\ pc = "run_parts" /\ part_no < Len(tutorial.parts)
           /\ tutorial.parts[part_no + 1].type # "prompt"
           /\ tutorial.parts[part_no + 1].run.skip)
          => pc' = "run_parts" /\ UNCHANGED <<context, cleanup, fs, cwd, log>>]_vars

\* C38: a part or command whose skip flag is set runs no process, writes no
\* file, registers no cleanup entry and leaves the context unchanged (its
\* update_context is not merged).
C38_SkippedDoesNothing ==
    /\ [](Executing => ~part.run.skip)
    /\ [](pc = "part_end" => ~tutorial.parts[part_no].run.skip)
    /\ [](\A i \in Indices(log, IsCommandRun) : ~log[i].config.run.skip)
    /\ SkipsChangeNothing

\* The same for the parts of the tutorial's own part list and for commands
C38_SkippedTopLevelDoesNothing ==
    /\ []((Executing /\ part = tutorial.parts[part_no]) => ~part.run.skip)
    /\ [](pc = "part_end" => ~tutorial.parts[part_no].run.skip)
    /\ [](\A i \in Indices(log, IsCommandRun) : ~log[i].config.run.skip)
    /\ SkipsChangeNothing

\* C40: a selected alternative's nested part is dispatched like a top-level
\* part of the same kind: if the nested part's own skip flag is set, it is
\* not executed.
C40_NestedSkipHonoured ==
    (Executing /\ tutorial.parts[part_no].type = "alternatives") => ~part.run.skip

----
\* RunnerBase.test_output (runners/base.py): the regular expression, the line
\* count and the character count of a captured output

\* The test of an output with its optional checks
CountedOutputModel(stream, regex, line_count, character_count) ==
    [kind |-> "output", stream |-> stream, regex |-> regex, line_count |-> line_count,
     character_count |-> character_count]

\* An optional field of the test holds no value (None) or one value
NoValue == <<>>
Value(v) == <<v>>
value_of(field) == field[1]

\* "if test.regex:" (None is false, a compiled pattern is true)
has_regex(test_) == test_.regex # NoValue

\* "if test.line_count:", "if test.character_count:" (None and 0 are false)
configured(count) == count # NoValue /\ value_of(count) # 0

\* value.splitlines(): the lines between the line breaks, without a last
\* empty line
RECURSIVE splitlines(_)
splitlines(value) ==
    IF value = <<>> THEN <<>>
    ELSE IF \E i \in 1..Len(value) : value[i] = NL
    THEN LET i == Min({j \in 1..Len(value) : value[j] = NL})
         IN <<SubSeq(value, 1, i - 1)>> \o splitlines(SubSeq(value, i + 1, Len(value)))
    ELSE <<value>>

\* len(value): the characters of the words, the spaces between two words of
\* a line and the line breaks
RECURSIVE len(_)
len(value) ==
    IF value = <<>> THEN 0
    ELSE (IF Head(value) = NL THEN 1 ELSE Len(Head(value)))
         + (IF Len(value) > 1 /\ Head(value) # NL /\ value[2] # NL THEN 1 ELSE 0)
         + len(Tail(value))

\* check_count(value, count) raises ValueError unless value has count items
check_count(length, count) == length = count

\* The context and the error test_output leaves
test_output_result(context_, error_) == [context |-> context_, error |-> error_]

\* Mutant: the groups are merged after the last check
test_output_merge_last(proc_, test_, context_) ==
    LET value == IF test_.stream = "stderr" THEN proc_.stderr ELSE proc_.stdout
        match == IF has_regex(test_) THEN regex_search(value_of(test_.regex), value)
                 ELSE [matched |-> TRUE, groupdict |-> EmptyDict]
    IN IF ~match.matched
       THEN test_output_result(context_, "CommandOutputTestError")
       ELSE IF /\ configured(test_.line_count)
               /\ ~check_count(Len(splitlines(value)), value_of(test_.line_count))
       THEN test_output_result(context_, "CommandOutputTestError")
       ELSE IF /\ configured(test_.character_count)
               /\ ~check_count(len(value), value_of(test_.character_count))
       THEN test_output_result(context_, "CommandOutputTestError")
       ELSE test_output_result(DictUpdate(context_, match.groupdict), "none")

test_output(proc_, test_, context_) ==
    LET value == IF test_.stream = "stderr" THEN proc_.stderr ELSE proc_.stdout
        match == IF has_regex(test_) THEN regex_search(value_of(test_.regex), value)
                 ELSE [matched |-> TRUE, groupdict |-> EmptyDict]
        updated == DictUpdate(context_, match.groupdict)
    IN IF ~match.matched
       THEN test_output_result(context_, "CommandOutputTestError")
       ELSE IF /\ configured(test_.line_count)
               /\ ~check_count(Len(splitlines(value)), value_of(test_.line_count))
       THEN test_output_result(updated, "CommandOutputTestError")
       ELSE IF /\ configured(test_.character_count)
               /\ ~check_count(len(value), value_of(test_.character_count))
       THEN test_output_result(updated, "CommandOutputTestError")
       ELSE test_output_result(updated, "none")

\* A call of test_output on a finished process
test_output_call ==
    /\ pc = "test_output"
    /\ LET r == test_output(proc, test, context)
       IN /\ context' = r.context
          /\ error' = r.error
    /\ pc' = "done"
    /\ UNCHANGED <<environ, environment, tutorial, alternatives, interactive,
                   show_command_output, context_arg, next_part, cleanup, cwd, saved_cwd,
                   scratch, fs, part_no, part, cmd_no, command_config, test_no, test, proc,
                   tries, asked, drain_no, result, log>>

\* "foo bar bla", "foo", "f\nb", "foo bar bla\nfoo", "wrong output" and no output
CountedOutputs ==
    {<<"foo", "bar", "bla">>, <<"foo">>, <<"f", NL, "b">>, <<"foo", "bar", "bla", NL, "foo">>,
     <<"wrong", "output">>, <<>>}

LineCounts == {NoValue, Value(0), Value(1), Value(2)}
CharacterCounts == {NoValue, Value(3), Value(11)}

CountedTests ==
    {CountedOutputModel(s, re, lc, cc) :
        s \in {"stdout", "stderr"}, re \in {NoValue, Value(RegexMid), Value(RegexFoo)},
        lc \in LineCounts, cc \in CharacterCounts}

InitOutput ==
    /\ environ = EmptyDict
    /\ environment = EmptyDict
    /\ tutorial = NoTutorial
    /\ alternatives = <<>>
    /\ interactive = FALSE
    /\ show_command_output = TRUE
    /\ context_arg = EmptyDict
    /\ next_part = 0
    /\ context \in TestContexts
    /\ cleanup = <<>>
    /\ cwd = "/orig"
    /\ saved_cwd = None
    /\ scratch = "none"
    /\ fs = EmptyDict
    /\ pc = "test_output"
    /\ part_no = 0
    /\ part = NoPart
    /\ cmd_no = 0
    /\ command_config = NoCommand
    /\ test_no = 0
    /\ test \in CountedTests
    /\ proc \in {CompletedProcess(0, out, <<"foo">>) : out \in CountedOutputs}
    /\ tries = 0
    /\ asked = 0
    /\ drain_no = 0
    /\ error = "none"
    /\ result = Running
    /\ log = <<>>

NextOutput == test_output_call

SpecOutput == InitOutput /\ [][NextOutput]_vars

----
\* Properties of test_output

TestedValue == IF test.stream = "stderr" THEN proc.stderr ELSE proc.stdout

\* Every configured check of the test passes on the tested output
ChecksPass ==
    /\ has_regex(test) => MatchOffsets(value_of(test.regex), TestedValue) # {}
    /\ configured(test.line_count) => Len(splitlines(TestedValue)) = value_of(test.line_count)
    /\ configured(test.character_count) => len(TestedValue) = value_of(test.character_count)

\* The named groups of the match
NamedGroups ==
    IF has_regex(test) /\ MatchOffsets(value_of(test.regex), TestedValue) # {}
    THEN regex_search(value_of(test.regex), TestedValue).groupdict ELSE EmptyDict

\* C39: test_output is all-or-nothing: either every configured check (regex,
\* line count, character count) passes and the named groups are merged into
\* the context, or CommandOutputTestError is raised and the context is left
\* unchanged.
C39_TestOutputAllOrNothing ==
    [][pc = "test_output" =>
         \/ /\ ChecksPass
            /\ error' = "none"
            /\ context' = DictUpdate(context, NamedGroups)
         \/ /\ ~ChecksPass
            /\ error' = "CommandOutputTestError"
            /\ context' = context]_vars

\* The same without the last clause: a failing check raises, and the groups
\* are merged whenever the regular expression matched
C39_TestOutputRaisesOrMerges ==
    [][pc = "test_output" =>
         /\ error' = (IF ChecksPass THEN "none" ELSE "CommandOutputTestError")
         /\ context' = DictUpdate(context, NamedGroups)]_vars

====
